---- MODULE Spec2Model ----
(***************************************************************************)
(* Model of the flight-analysis record cleaning and aggregation engine,    *)
(* src/src/data_processor.py (class DataProcessor).                        *)
(*                                                                         *)
(* One invocation of process_data is a sequence of steps (pc): the empty   *)
(* check, _clean_data, the six views in the order of the dict literal at   *)
(* lines 38-45, and the assembly of the result.  A step that raises in     *)
(* Python ends the invocation in pc = "raised" (process_data has no        *)
(* try/except around the views).                                           *)
(*                                                                         *)
(* Values.  A cell of a DataFrame, and every scalar of a result, is a      *)
(* tagged record: NaN (also None and NaT), Num(n), Str(chars), Bool(b),    *)
(* Date(y, m, d), and Float(num, den) for the floats the aggregations      *)
(* produce (an exact fraction in lowest terms; binary rounding is not      *)
(* modelled).  Text is a sequence of one-character strings so that         *)
(* upper(), to_numeric() and to_datetime() are computed, not assumed.      *)
(***************************************************************************)
EXTENDS Integers, Sequences, FiniteSets, TLC

VARIABLES raw_data, pc, df, analysis, result, error

\* What the callers of process_data do with its result (src/app.py, the
\* results route): the dashboard metrics of the visualizer, and its charts
\* with the position of create_charts (vpc).
VARIABLES metrics, charts, vpc

\* One call of APIIntegrator.get_insights (src/src/api_integrator.py): the
\* provider settings and call outcomes, the returned insights and the
\* position of the call (ipc).
VARIABLES providers, insights, ipc

\* One call of DataCollector._generate_sample_data
\* (src/src/data_collector.py): its arguments and the clock reading of
\* datetime.now() (args), the locals current_date, end_date and flights,
\* and the position of the call (gpc).
VARIABLES args, current_date, end_date, sample_flights, gpc

\* Invocations of process_data running at once on the one DataProcessor of
\* src/app.py (line 42): the locals of each invocation (calls), the
\* wall clock in seconds, the files under data/processed by the second of
\* their name, and the invocations whose failed save was logged.
VARIABLES calls, clock, files, log

proc == <<raw_data, pc, df, analysis, result, error>>
conc == <<calls, clock, files, log>>
gen == <<args, current_date, end_date, sample_flights, gpc>>
viz == <<metrics, charts, vpc>>
ins == <<providers, insights, ipc>>

\* The variables outside process_data, which its steps leave alone, and
\* their values while nothing but process_data runs.
env == <<viz, ins, gen, conc>>
VizIdle == metrics = <<>> /\ charts = <<>> /\ vpc = "idle"
InsIdle == providers = <<>> /\ insights = <<>> /\ ipc = "idle"
GenIdle ==
    /\ args = <<>>
    /\ current_date = <<>>
    /\ end_date = <<>>
    /\ sample_flights = <<>>
    /\ gpc = "idle"
ConcIdle == calls = <<>> /\ clock = 0 /\ files = <<>> /\ log = {}
EnvIdle == VizIdle /\ InsIdle /\ GenIdle /\ ConcIdle

\* What the steps of each component leave alone.
outside_viz == <<proc, ins, gen, conc>>
outside_ins == <<proc, viz, gen, conc>>
outside_gen == <<proc, viz, ins, conc>>
outside_conc == <<proc, viz, ins, gen>>

vars == <<raw_data, pc, df, analysis, result, error, env>>

(***************************************************************************)
(* Bounds of the model.                                                    *)
(***************************************************************************)
MaxFlights == 2
MaxClock == 1

(***************************************************************************)
(* Cell values.                                                            *)
(***************************************************************************)
NaN == [t |-> "nan"]
Num(n) == [t |-> "num", n |-> n]
Str(s) == [t |-> "str", s |-> s]
Bool(b) == [t |-> "bool", b |-> b]
Date(y, m, d) == [t |-> "date", y |-> y, m |-> m, d |-> d]
\* A label out of a fixed list (a day name, a month name).
Label(s) == [t |-> "label", v |-> s]

IsNull(v) == v.t = "nan"

RECURSIVE GCD(_, _)
GCD(a, b) == IF b = 0 THEN a ELSE GCD(b, a % b)

Abs(n) == IF n < 0 THEN -n ELSE n

\* A Python float holding num/den (den # 0), kept in lowest terms.
Float(num, den) ==
    LET g == GCD(Abs(num), Abs(den))
        s == IF den < 0 THEN -1 ELSE 1
    IN  [t |-> "float", num |-> (s * num) \div g, den |-> (s * den) \div g]

(***************************************************************************)
(* Text: str.upper, the integer literals pd.to_numeric accepts, and the    *)
(* ISO dates pd.to_datetime accepts.                                       *)
(***************************************************************************)
LowerCase == <<"a","b","c","d","e","f","g","h","i","j","k","l","m",
               "n","o","p","q","r","s","t","u","v","w","x","y","z">>
UpperCase == <<"A","B","C","D","E","F","G","H","I","J","K","L","M",
               "N","O","P","Q","R","S","T","U","V","W","X","Y","Z">>
Digits == <<"0","1","2","3","4","5","6","7","8","9">>

UpperChar(c) ==
    IF \E i \in DOMAIN LowerCase : LowerCase[i] = c
    THEN UpperCase[CHOOSE i \in DOMAIN LowerCase : LowerCase[i] = c]
    ELSE c

upper(s) == [i \in DOMAIN s |-> UpperChar(s[i])]

IsDigit(c) == \E i \in DOMAIN Digits : Digits[i] = c
DigitVal(c) == (CHOOSE i \in DOMAIN Digits : Digits[i] = c) - 1
AllDigits(s) == Len(s) > 0 /\ \A i \in DOMAIN s : IsDigit(s[i])

RECURSIVE NatVal(_)
NatVal(s) ==
    IF Len(s) = 0 THEN 0
    ELSE 10 * NatVal(SubSeq(s, 1, Len(s) - 1)) + DigitVal(s[Len(s)])

\* pd.to_numeric(..., errors='coerce') on one cell: numbers pass, text that
\* is an optionally signed run of digits is read, anything else is NaN.
to_numeric(v) ==
    CASE v.t = "num" -> v
      [] v.t = "str" ->
            IF AllDigits(v.s) THEN Num(NatVal(v.s))
            ELSE IF Len(v.s) > 1 /\ v.s[1] = "-" /\ AllDigits(Tail(v.s))
                 THEN Num(-NatVal(Tail(v.s)))
                 ELSE NaN
      [] OTHER -> NaN

IsLeap(y) == (y % 4 = 0) /\ ((y % 100 # 0) \/ (y % 400 = 0))

DaysInMonth(y, m) ==
    IF m = 2 THEN (IF IsLeap(y) THEN 29 ELSE 28)
    ELSE IF m \in {4, 6, 9, 11} THEN 30 ELSE 31

\* pd.to_datetime(..., errors='coerce') on one cell: text of the form
\* YYYY-MM-DD naming a day of the calendar is read, anything else is NaT.
to_datetime(v) ==
    IF v.t # "str" THEN NaN
    ELSE LET s == v.s IN
         IF /\ Len(s) = 10
            /\ s[5] = "-" /\ s[8] = "-"
            /\ AllDigits(SubSeq(s, 1, 4))
            /\ AllDigits(SubSeq(s, 6, 7))
            /\ AllDigits(SubSeq(s, 9, 10))
         THEN LET y == NatVal(SubSeq(s, 1, 4))
                  m == NatVal(SubSeq(s, 6, 7))
                  d == NatVal(SubSeq(s, 9, 10))
              IN  IF y >= 1 /\ m \in 1..12 /\ d >= 1 /\ d <= DaysInMonth(y, m)
                  THEN Date(y, m, d) ELSE NaN
         ELSE NaN

RECURSIVE DaysBeforeMonth(_, _)
DaysBeforeMonth(y, m) ==
    IF m = 1 THEN 0 ELSE DaysBeforeMonth(y, m - 1) + DaysInMonth(y, m - 1)

\* datetime.toordinal and weekday (Monday = 0).
ToOrdinal(dt) ==
    LET y1 == dt.y - 1
    IN  y1 * 365 + (y1 \div 4) - (y1 \div 100) + (y1 \div 400)
        + DaysBeforeMonth(dt.y, dt.m) + dt.d

weekday(dt) == (ToOrdinal(dt) + 6) % 7

DayNames == <<"Monday", "Tuesday", "Wednesday", "Thursday", "Friday",
              "Saturday", "Sunday">>
MonthNames == <<"January", "February", "March", "April", "May", "June",
                "July", "August", "September", "October", "November",
                "December">>

day_name(dt) == DayNames[weekday(dt) + 1]
month_name(dt) == MonthNames[dt.m]

(***************************************************************************)
(* DataFrame: a set of columns and a sequence of rows, each row carrying   *)
(* its index label (the position of the raw record) and one cell a column. *)
(***************************************************************************)
EmptyFrame == [cols |-> {}, rows |-> <<>>]

\* pd.DataFrame(list of dicts): the columns are the union of the keys, a
\* key a record lacks is NaN in its row.
DataFrame(flights) ==
    LET cols == UNION {DOMAIN flights[i] : i \in DOMAIN flights}
    IN  [cols |-> cols,
         rows |-> [i \in DOMAIN flights |->
                     [idx |-> i - 1,
                      c |-> [k \in cols |->
                               IF k \in DOMAIN flights[i]
                               THEN flights[i][k] ELSE NaN]]]]

len(d) == Len(d.rows)

\* df[col] = F(row), for every row.
SetColumn(d, col, F(_)) ==
    [cols |-> d.cols \cup {col},
     rows |-> [i \in DOMAIN d.rows |->
                 [idx |-> d.rows[i].idx,
                  c |-> [k \in d.cols \cup {col} |->
                           IF k = col THEN F(d.rows[i])
                           ELSE d.rows[i].c[k]]]]]

\* df[mask], the rows that satisfy P in their order.
FilterRows(d, P(_)) ==
    [cols |-> d.cols, rows |-> SelectSeq(d.rows, P)]

(***************************************************************************)
(* _clean_data, one operator a statement group.                            *)
(***************************************************************************)
\* Variant: no row is dropped.
drop_duplicates_keep_all(d) == d

\* df.drop_duplicates(): a row equal in every cell to an earlier row goes,
\* the first of each group stays (keep='first').
drop_duplicates(d) ==
    LET keep == {i \in DOMAIN d.rows :
                    \A j \in 1..(i - 1) : d.rows[j].c # d.rows[i].c}
        Kept(r) == \E i \in keep : d.rows[i] = r
    IN  FilterRows(d, Kept)

required_columns == <<"price", "origin", "destination", "date">>

NoneCell(r) == NaN

\* for col in required_columns: if col not in df.columns: df[col] = None
RECURSIVE ensure_required(_, _)
ensure_required(d, n) ==
    IF n = 0 THEN d
    ELSE LET e == ensure_required(d, n - 1)
             col == required_columns[n]
         IN  IF col \in e.cols THEN e ELSE SetColumn(e, col, NoneCell)

NotNullIn(col, r) == ~IsNull(r.c[col])

\* df.dropna(subset=[col])
dropna(d, col) ==
    LET Has(r) == NotNullIn(col, r) IN FilterRows(d, Has)

\* Variant: the comparison is >= 0.
price_nonnegative(d) ==
    LET Pos(r) == r.c["price"].t = "num" /\ r.c["price"].n >= 0
    IN  FilterRows(d, Pos)

\* df[df['price'] > 0]: a NaN compares False
price_positive(d) ==
    LET Pos(r) == r.c["price"].t = "num" /\ r.c["price"].n > 0
    IN  FilterRows(d, Pos)

\* lines 75-77
clean_price(d) ==
    LET Coerce(r) == to_numeric(r.c["price"])
    IN  price_positive(dropna(SetColumn(d, "price", Coerce), "price"))

\* Series.str.upper(): a cell that is not text gives NaN
str_upper(v) == IF v.t = "str" THEN Str(upper(v.s)) ELSE NaN

\* Variant: the codes are grouped as they were given.
standardize_codes_as_given(d) == d

\* lines 80-81
standardize_codes(d) ==
    LET UpO(r) == str_upper(r.c["origin"])
        UpD(r) == str_upper(r.c["destination"])
    IN  SetColumn(SetColumn(d, "origin", UpO), "destination", UpD)

\* Variant: an unparsable date becomes the epoch instead of a dropped row.
parse_dates_default(d) ==
    LET Parse(r) == IF IsNull(to_datetime(r.c["date"]))
                    THEN Date(1970, 1, 1) ELSE to_datetime(r.c["date"])
    IN  SetColumn(d, "date", Parse)

\* lines 84-85
parse_dates(d) ==
    LET Parse(r) == to_datetime(r.c["date"])
    IN  dropna(SetColumn(d, "date", Parse), "date")

\* lines 88-90
add_derived(d) ==
    LET Day(r) == Label(day_name(r.c["date"]))
        Month(r) == Label(month_name(r.c["date"]))
        Weekend(r) == Bool(weekday(r.c["date"]) >= 5)
    IN  SetColumn(SetColumn(SetColumn(d, "day_of_week", Day),
                            "month", Month), "is_weekend", Weekend)

\* Series + str and Series + Series on object columns: a null operand
\* gives a null result.
str_add(a, b) ==
    IF a.t = "str" /\ b.t = "str" THEN Str(a.s \o b.s) ELSE NaN

\* Variant: the two codes in the other order.
add_route_reversed(d) ==
    LET Route(r) == str_add(str_add(r.c["destination"], Str(<<"-">>)),
                            r.c["origin"])
    IN  SetColumn(d, "route", Route)

\* line 93
add_route(d) ==
    LET Route(r) == str_add(str_add(r.c["origin"], Str(<<"-">>)),
                            r.c["destination"])
    IN  SetColumn(d, "route", Route)

\* Variant: equal rows are dropped after the coercions, not before.
_clean_data_dedup_last(d) ==
    drop_duplicates(add_route(add_derived(parse_dates(standardize_codes(
        clean_price(ensure_required(d, Len(required_columns))))))))

_clean_data(d) ==
    add_route(add_derived(parse_dates(standardize_codes(clean_price(
        ensure_required(drop_duplicates(d), Len(required_columns)))))))

(***************************************************************************)
(* Series reductions.  A reduction of an empty Series is NaN.              *)
(***************************************************************************)
Column(d, col) == [i \in DOMAIN d.rows |-> d.rows[i].c[col]]

Prices(d) == [i \in DOMAIN d.rows |-> d.rows[i].c["price"].n]

RECURSIVE Sum(_)
Sum(s) == IF Len(s) = 0 THEN 0 ELSE s[1] + Sum(Tail(s))

Leq(a, b) == a <= b

mean(s) == IF Len(s) = 0 THEN NaN ELSE Float(Sum(s), Len(s))

min(s) ==
    IF Len(s) = 0 THEN NaN
    ELSE Float(CHOOSE x \in {s[i] : i \in DOMAIN s} :
                   \A i \in DOMAIN s : x <= s[i], 1)

max(s) ==
    IF Len(s) = 0 THEN NaN
    ELSE Float(CHOOSE x \in {s[i] : i \in DOMAIN s} :
                   \A i \in DOMAIN s : x >= s[i], 1)

median(s) ==
    IF Len(s) = 0 THEN NaN
    ELSE LET o == SortSeq(s, Leq)
             n == Len(s)
         IN  IF n % 2 = 1 THEN Float(o[(n + 1) \div 2], 1)
             ELSE Float(o[n \div 2] + o[n \div 2 + 1], 2)

\* The square root of a float, kept as the radicand.
Sqrt(f) == [t |-> "sqrt", of |-> f]

\* Series.std(): the sample standard deviation (ddof = 1), NaN for fewer
\* than two values.  var = (n * sum(x^2) - sum(x)^2) / (n * (n - 1)).
std(s) ==
    LET n == Len(s)
        sq == [i \in DOMAIN s |-> s[i] * s[i]]
    IN  IF n < 2 THEN NaN
        ELSE Sqrt(Float(n * Sum(sq) - Sum(s) * Sum(s), n * (n - 1)))

nunique(s) == Cardinality({s[i] : i \in DOMAIN s} \ {NaN})

\* Float arithmetic: a NaN operand gives NaN.
FSub(a, b) ==
    IF IsNull(a) \/ IsNull(b) THEN NaN
    ELSE Float(a.num * b.den - b.num * a.den, a.den * b.den)

FDiv(a, b) ==
    IF IsNull(a) \/ IsNull(b) THEN NaN
    ELSE Float(a.num * b.den, a.den * b.num)

FMul(a, b) ==
    IF IsNull(a) \/ IsNull(b) THEN NaN
    ELSE Float(a.num * b.num, a.den * b.den)

\* a > 0 on floats: False for NaN.
FPositive(a) == ~IsNull(a) /\ a.num > 0

\* strftime('%Y-%m-%d')
ZeroPad(n, width) ==
    [i \in 1..width |-> Digits[((n \div (10 ^ (width - i))) % 10) + 1]]

strftime(dt) ==
    ZeroPad(dt.y, 4) \o <<"-">> \o ZeroPad(dt.m, 2) \o <<"-">> \o ZeroPad(dt.d, 2)

Dates(d) == {d.rows[i].c["date"] : i \in DOMAIN d.rows}

MinDate(d) ==
    CHOOSE x \in Dates(d) : \A y \in Dates(d) : ToOrdinal(x) <= ToOrdinal(y)

MaxDate(d) ==
    CHOOSE x \in Dates(d) : \A y \in Dates(d) : ToOrdinal(x) >= ToOrdinal(y)

(***************************************************************************)
(* _generate_summary.  On an empty frame df['date'].min() is NaT and       *)
(* NaT.strftime raises ValueError.                                         *)
(***************************************************************************)
_generate_summary_raises(d) == len(d) = 0

\* Variant: total_flights counts up to the index label of the last row.
_generate_summary_by_label(d) ==
    [total_flights |-> d.rows[Len(d.rows)].idx + 1,
     unique_routes |-> nunique(Column(d, "route")),
     date_range |-> [start |-> strftime(MinDate(d)),
                     end |-> strftime(MaxDate(d))],
     price_range |-> [min |-> min(Prices(d)),
                      max |-> max(Prices(d)),
                      avg |-> mean(Prices(d)),
                      median |-> median(Prices(d))],
     airlines |-> IF "airline" \in d.cols
                  THEN nunique(Column(d, "airline")) ELSE 0]

_generate_summary(d) ==
    [total_flights |-> len(d),
     unique_routes |-> nunique(Column(d, "route")),
     date_range |-> [start |-> strftime(MinDate(d)),
                     end |-> strftime(MaxDate(d))],
     price_range |-> [min |-> min(Prices(d)),
                      max |-> max(Prices(d)),
                      avg |-> mean(Prices(d)),
                      median |-> median(Prices(d))],
     airlines |-> IF "airline" \in d.cols
                  THEN nunique(Column(d, "airline")) ELSE 0]

(***************************************************************************)
(* _analyze_prices                                                         *)
(***************************************************************************)
\* df.groupby(col)['price'].mean().to_dict(): one entry a label present
group_mean(d, col) ==
    LET keys == {d.rows[i].c[col].v : i \in DOMAIN d.rows}
        In(k) == LET P(r) == r.c[col].v = k IN FilterRows(d, P)
    IN  [k \in keys |-> mean(Prices(In(k)))]

weekend_rows(d) == LET P(r) == r.c["is_weekend"].b IN FilterRows(d, P)
weekday_rows(d) == LET P(r) == ~r.c["is_weekend"].b IN FilterRows(d, P)

\* lines 129-140: the premium is computed when weekday_avg > 0
weekend_premium(d) ==
    LET weekend_avg == mean(Prices(weekend_rows(d)))
        weekday_avg == mean(Prices(weekday_rows(d)))
        base == [weekend_avg |-> weekend_avg, weekday_avg |-> weekday_avg]
    IN  IF FPositive(weekday_avg)
        THEN base @@ ("premium_percentage" :>
                 FMul(FDiv(FSub(weekend_avg, weekday_avg), weekday_avg),
                      Float(100, 1)))
        ELSE base

_analyze_prices(d) ==
    [statistics |-> [mean |-> mean(Prices(d)),
                     median |-> median(Prices(d)),
                     std |-> std(Prices(d)),
                     min |-> min(Prices(d)),
                     max |-> max(Prices(d))],
     by_day_of_week |-> group_mean(d, "day_of_week"),
     by_month |-> group_mean(d, "month"),
     weekend_premium |-> weekend_premium(d)]

(***************************************************************************)
(* Grouping.  groupby(col) leaves out the rows whose key is null and       *)
(* orders the groups by key, ascending.                                    *)
(***************************************************************************)
\* Code point order of the characters in use: '-' < digits < A-Z < a-z.
CharOrder == <<"-">> \o Digits \o <<":">> \o UpperCase \o LowerCase
Ord(c) == CHOOSE i \in DOMAIN CharOrder : CharOrder[i] = c

RECURSIVE StrLess(_, _)
StrLess(a, b) ==
    IF Len(b) = 0 THEN FALSE
    ELSE IF Len(a) = 0 THEN TRUE
    ELSE IF a[1] = b[1] THEN StrLess(Tail(a), Tail(b))
    ELSE Ord(a[1]) < Ord(b[1])

\* The text keys of a column, in ascending order.
RECURSIVE AscendingKeys(_)
AscendingKeys(S) ==
    IF S = {} THEN <<>>
    ELSE LET k == CHOOSE x \in S : \A y \in S \ {x} : StrLess(x, y)
         IN  <<k>> \o AscendingKeys(S \ {k})

GroupKeys(d, col) ==
    AscendingKeys({d.rows[i].c[col].s :
                      i \in {j \in DOMAIN d.rows : ~IsNull(d.rows[j].c[col])}})

GroupRows(d, col, k) ==
    LET P(r) == ~IsNull(r.c[col]) /\ r.c[col].s = k IN FilterRows(d, P)

\* DataFrame.round(2) on one float: to hundredths, a tie to the even one.
Round2(f) ==
    IF IsNull(f) THEN NaN
    ELSE LET n == f.num * 100
             q == n \div f.den
             r == n % f.den
             up == (2 * r > f.den) \/ (2 * r = f.den /\ q % 2 = 1)
         IN  Float(IF up THEN q + 1 ELSE q, 100)

FLess(a, b) == a.num * b.den < b.num * a.den

BoolInts(s) == [i \in DOMAIN s |-> IF s[i].b THEN 1 ELSE 0]

\* groupby(col).agg({'price': ['count', 'mean', 'min', 'max'],
\*                   'direct': 'mean'}).round(2), one record a group;
\* direct_ratio only when with_direct.
group_stats(d, col, with_direct) ==
    LET keys == GroupKeys(d, col)
        Stat(k) ==
            LET g == GroupRows(d, col, k)
                base == (col :> k) @@
                        [flight_count |-> len(g),
                         avg_price |-> Round2(mean(Prices(g))),
                         min_price |-> Round2(min(Prices(g))),
                         max_price |-> Round2(max(Prices(g)))]
            IN  IF with_direct
                THEN base @@ ("direct_ratio" :>
                         Round2(mean(BoolInts(Column(g, "direct")))))
                ELSE base
    IN  [i \in DOMAIN keys |-> Stat(keys[i])]

\* The orders in which the rows S can come by descending flight_count.
RECURSIVE descending_orders(_)
descending_orders(S) ==
    IF S = {} THEN {<<>>}
    ELSE LET top == {x \in S : \A y \in S : y.flight_count <= x.flight_count}
         IN  UNION {{<<x>> \o rest : rest \in descending_orders(S \ {x})} :
                       x \in top}

\* Variant: the rows stay in the order of the grouping.
group_order(s) == {s}

\* sort_values('flight_count', ascending=False), with the default
\* kind='quicksort'.  That sort is not stable: rows of equal flight_count
\* come out in an order that the call does not fix and that depends on the
\* numpy build and the number of rows.  The frames the call can give.
sort_by_flight_count(s) == descending_orders({s[i] : i \in DOMAIN s})

\* stats.loc[stats['avg_price'].idxmax()]: the first row of the largest
\* avg_price; idxmin likewise.
row_idxmax(s) ==
    s[CHOOSE i \in DOMAIN s :
         /\ \A j \in DOMAIN s : ~FLess(s[i].avg_price, s[j].avg_price)
         /\ \A j \in 1..(i - 1) : FLess(s[j].avg_price, s[i].avg_price)]

row_idxmin(s) ==
    s[CHOOSE i \in DOMAIN s :
         /\ \A j \in DOMAIN s : ~FLess(s[j].avg_price, s[i].avg_price)
         /\ \A j \in 1..(i - 1) : FLess(s[i].avg_price, s[j].avg_price)]

head(s, n) == SubSeq(s, 1, IF Len(s) < n THEN Len(s) ELSE n)

(***************************************************************************)
(* _analyze_routes.  With no group at all (every route null) idxmax of an  *)
(* empty Series raises ValueError.  route_stats(d) is the set of sorted     *)
(* frames the sort can give; _analyze_routes is the rest of the function,  *)
(* on the one it gave.                                                     *)
(***************************************************************************)
route_stats(d) ==
    sort_by_flight_count(group_stats(d, "route", "direct" \in d.cols))

_analyze_routes_raises(d) == Len(GroupKeys(d, "route")) = 0

_analyze_routes(stats) ==
    [popular_routes |-> head(stats, 10),
     total_routes |-> Len(stats),
     most_expensive_route |-> row_idxmax(stats),
     cheapest_route |-> row_idxmin(stats)]

(***************************************************************************)
(* _analyze_time_patterns                                                  *)
(***************************************************************************)
\* df.groupby(df['date'].dt.date)['price'].count()
daily_counts(d) ==
    [x \in Dates(d) |->
        Cardinality({i \in DOMAIN d.rows : d.rows[i].c["date"] = x})]

\* idxmax / idxmin of the daily counts, which are in date order: the
\* earliest date of the largest / smallest count.
\* Variant: of the dates of the largest count, the latest.
busiest_day_latest(d) ==
    CHOOSE x \in Dates(d) :
        \A y \in Dates(d) :
            \/ daily_counts(d)[y] < daily_counts(d)[x]
            \/ daily_counts(d)[y] = daily_counts(d)[x]
               /\ ToOrdinal(x) >= ToOrdinal(y)

busiest_day(d) ==
    CHOOSE x \in Dates(d) :
        \A y \in Dates(d) :
            \/ daily_counts(d)[y] < daily_counts(d)[x]
            \/ daily_counts(d)[y] = daily_counts(d)[x]
               /\ ToOrdinal(x) <= ToOrdinal(y)

quietest_day(d) ==
    CHOOSE x \in Dates(d) :
        \A y \in Dates(d) :
            \/ daily_counts(d)[y] > daily_counts(d)[x]
            \/ daily_counts(d)[y] = daily_counts(d)[x]
               /\ ToOrdinal(x) <= ToOrdinal(y)

weekly_pattern(d) ==
    LET keys == {d.rows[i].c["day_of_week"].v : i \in DOMAIN d.rows}
    IN  [k \in keys |->
            Cardinality({i \in DOMAIN d.rows : d.rows[i].c["day_of_week"].v = k})]

_analyze_time_patterns(d) ==
    [daily_flight_counts |-> daily_counts(d),
     weekly_pattern |-> weekly_pattern(d),
     busiest_day |-> strftime(busiest_day(d)),
     quietest_day |-> strftime(quietest_day(d)),
     avg_flights_per_day |-> Float(len(d), Cardinality(Dates(d)))]

(***************************************************************************)
(* _analyze_demand                                                         *)
(***************************************************************************)
FAdd(a, b) ==
    IF IsNull(a) \/ IsNull(b) THEN NaN
    ELSE Float(a.num * b.den + b.num * a.den, a.den * b.den)

RECURSIVE FSum(_)
FSum(s) == IF Len(s) = 0 THEN Float(0, 1) ELSE FAdd(s[1], FSum(Tail(s)))

FLeq(a, b) == ~FLess(b, a)

\* The mean of a Series of floats, nulls skipped.
fmean(s) ==
    LET NotNull(v) == ~IsNull(v)
        v == SelectSeq(s, NotNull)
    IN  IF Len(v) = 0 THEN NaN ELSE FDiv(FSum(v), Float(Len(v), 1))

\* df.groupby('route')['demand_score'].mean()
route_demand(d) ==
    LET keys == GroupKeys(d, "route")
    IN  [k \in {keys[i] : i \in DOMAIN keys} |->
            fmean(Column(GroupRows(d, "route", k), "demand_score"))]

\* Series.quantile(0.8), linear interpolation between the two values
\* around position (n - 1) * 0.8 of the ascending values.
quantile80(vals) ==
    LET n == Len(vals)
        o == SortSeq(vals, FLess)
        lo == (4 * (n - 1)) \div 5
        rem == (4 * (n - 1)) % 5
    IN  IF n = 0 THEN NaN
        ELSE IF rem = 0 THEN o[lo + 1]
        ELSE FAdd(o[lo + 1],
                  FMul(FSub(o[lo + 2], o[lo + 1]), Float(rem, 5)))

high_demand_routes(d) ==
    LET rd == route_demand(d)
        keys == GroupKeys(d, "route")
        NotNull(v) == ~IsNull(v)
        threshold == quantile80(SelectSeq([i \in DOMAIN keys |-> rd[keys[i]]],
                                          NotNull))
    IN  [k \in {x \in DOMAIN rd :
                   ~IsNull(rd[x]) /\ ~IsNull(threshold)
                   /\ FLeq(threshold, rd[x])} |-> rd[k]]

\* Series.corr: Pearson's r over the rows where both values are present;
\* NaN for fewer than two rows or when either variance is zero.  The value
\* is kept as covariance and product of variances (r = cov / sqrt(vv)).
corr(d) ==
    LET P(r) == ~IsNull(r.c["demand_score"])
        g == FilterRows(d, P)
        n == Float(len(g), 1)
        x == [i \in DOMAIN g.rows |-> Float(g.rows[i].c["price"].n, 1)]
        y == Column(g, "demand_score")
        xx == [i \in DOMAIN x |-> FMul(x[i], x[i])]
        yy == [i \in DOMAIN y |-> FMul(y[i], y[i])]
        xy == [i \in DOMAIN x |-> FMul(x[i], y[i])]
        vx == FSub(FMul(n, FSum(xx)), FMul(FSum(x), FSum(x)))
        vy == FSub(FMul(n, FSum(yy)), FMul(FSum(y), FSum(y)))
        cov == FSub(FMul(n, FSum(xy)), FMul(FSum(x), FSum(y)))
    IN  IF len(g) < 2 \/ vx.num = 0 \/ vy.num = 0 THEN NaN
        ELSE [t |-> "corr", cov |-> cov, vv |-> FMul(vx, vy)]

\* pd.to_datetime(..., format='%H:%M', errors='coerce').dt.hour on one
\* cell: one or two digits up to 23, ':', one or two digits up to 59.
hour_of(v) ==
    IF v.t # "str" THEN NaN
    ELSE LET s == v.s
             Ok(p) == /\ p < Len(s) /\ s[p] = ":"
                      /\ AllDigits(SubSeq(s, 1, p - 1))
                      /\ NatVal(SubSeq(s, 1, p - 1)) <= 23
                      /\ Len(s) - p <= 2
                      /\ AllDigits(SubSeq(s, p + 1, Len(s)))
                      /\ NatVal(SubSeq(s, p + 1, Len(s))) <= 59
         IN  IF \E p \in {2, 3} : Ok(p)
             THEN Num(NatVal(SubSeq(s, 1, (CHOOSE p \in {2, 3} : Ok(p)) - 1)))
             ELSE NaN

\* Variant: a time that does not parse counts as hour 0.
with_hour_zero(d) ==
    LET Hour(r) == IF IsNull(hour_of(r.c["time"])) THEN Num(0)
                   ELSE hour_of(r.c["time"])
    IN  IF "time" \in d.cols THEN SetColumn(d, "hour", Hour) ELSE d

\* line 209: df['hour'] = ..., on the frame the caller holds
with_hour(d) ==
    LET Hour(r) == hour_of(r.c["time"])
    IN  IF "time" \in d.cols THEN SetColumn(d, "hour", Hour) ELSE d

Hours(d) ==
    {d.rows[i].c["hour"].n :
        i \in {j \in DOMAIN d.rows : ~IsNull(d.rows[j].c["hour"])}}

\* df.groupby('hour')['price'].count()
hourly_counts(d) ==
    [h \in Hours(d) |->
        Cardinality({i \in DOMAIN d.rows : d.rows[i].c["hour"] = Num(h)})]

peak_times(d) ==
    LET hc == hourly_counts(d)
    IN  [busiest_hour |->
            CHOOSE h \in DOMAIN hc : \A k \in DOMAIN hc :
                hc[k] < hc[h] \/ (hc[k] = hc[h] /\ h <= k),
         quietest_hour |->
            CHOOSE h \in DOMAIN hc : \A k \in DOMAIN hc :
                hc[k] > hc[h] \/ (hc[k] = hc[h] /\ h <= k),
         hourly_distribution |-> hc]

\* With a time column in which no value parses there is no hour group and
\* idxmax of an empty Series raises ValueError.
_analyze_demand_raises(d) == "time" \in d.cols /\ Hours(with_hour(d)) = {}

_analyze_demand(d) ==
    [high_demand_routes |->
        IF "demand_score" \in d.cols THEN high_demand_routes(d) ELSE <<>>,
     price_demand_correlation |->
        IF "demand_score" \in d.cols THEN corr(d) ELSE Num(0),
     peak_times |->
        IF "time" \in d.cols THEN peak_times(with_hour(d)) ELSE <<>>]

(***************************************************************************)
(* _analyze_airlines.  The aggregation names the column 'direct' whether   *)
(* or not the frame has it: without it agg raises KeyError.  With no       *)
(* airline group, iloc[0] raises IndexError.  airline_stats(d) is the set   *)
(* of sorted frames the sort can give; _analyze_airlines takes the one it  *)
(* gave (none without an airline column).                                  *)
(***************************************************************************)
\* Variant: the airlines stay in the order of the grouping.
airline_stats_unsorted(d) ==
    IF "airline" \notin d.cols THEN {<<>>}
    ELSE {group_stats(d, "airline", TRUE)}

airline_stats(d) ==
    IF "airline" \notin d.cols THEN {<<>>}
    ELSE sort_by_flight_count(group_stats(d, "airline", TRUE))

_analyze_airlines_raises(d) ==
    /\ "airline" \in d.cols
    /\ ("direct" \notin d.cols \/ Len(GroupKeys(d, "airline")) = 0)

\* Variant: without an airline column the view is left empty.
_analyze_airlines_unmarked(d, stats) ==
    IF "airline" \notin d.cols
    THEN <<>>
    ELSE [airline_rankings |-> stats,
          most_flights |-> stats[1].airline,
          cheapest_airline |-> row_idxmin(stats).airline,
          most_expensive_airline |-> row_idxmax(stats).airline]

_analyze_airlines(d, stats) ==
    IF "airline" \notin d.cols
    THEN [message |-> "No airline data available"]
    ELSE [airline_rankings |-> stats,
          most_flights |-> stats[1].airline,
          cheapest_airline |-> row_idxmin(stats).airline,
          most_expensive_airline |-> row_idxmax(stats).airline]

(***************************************************************************)
(* process_data                                                            *)
(***************************************************************************)
EmptyDict == <<>>

\* dict.get(key, default)
get(dict, key, default) == IF key \in DOMAIN dict THEN dict[key] ELSE default

\* Variant: only a missing key counts, an empty list does not.
no_flights_key_only(raw) == "flights" \notin DOMAIN raw

\* not raw_data.get('flights'): no such key, or an empty list
no_flights(raw) == "flights" \notin DOMAIN raw \/ Len(raw["flights"]) = 0

\* DataFrame.to_dict('records')
to_dict_records(d) == [i \in DOMAIN d.rows |-> d.rows[i].c]

_get_empty_processed_data(ts) ==
    [search_params |-> EmptyDict,
     flights_data |-> <<>>,
     analysis |-> [summary |-> [total_flights |-> 0],
                   price_analysis |-> EmptyDict,
                   route_analysis |-> EmptyDict,
                   time_analysis |-> EmptyDict,
                   demand_analysis |-> EmptyDict,
                   airline_analysis |-> EmptyDict],
     market_data |-> EmptyDict,
     processing_timestamp |-> ts,
     total_flights |-> 0]

\* Variant: the result is built without market_data.
processed_data_no_market(raw, d, views, ts) ==
    [search_params |-> get(raw, "search_params", EmptyDict),
     flights_data |-> to_dict_records(d),
     analysis |-> views,
     processing_timestamp |-> ts,
     total_flights |-> len(d)]

\* lines 48-55
processed_data(raw, d, views, ts) ==
    [search_params |-> get(raw, "search_params", EmptyDict),
     flights_data |-> to_dict_records(d),
     analysis |-> views,
     market_data |-> get(raw, "market_data", EmptyDict),
     processing_timestamp |-> ts,
     total_flights |-> len(d)]

\* datetime.now(), read from the environment
Clock == 0..MaxClock

\* lines 28-32: the empty check, then the DataFrame of the raw records
ProcessData ==
    /\ pc = "start"
    /\ IF no_flights(raw_data)
       THEN /\ \E ts \in Clock : result' = _get_empty_processed_data(ts)
            /\ pc' = "done"
            /\ UNCHANGED df
       ELSE /\ df' = DataFrame(raw_data["flights"])
            /\ pc' = "clean"
            /\ UNCHANGED result
    /\ UNCHANGED <<env, raw_data, analysis, error>>

\* line 35
CleanData ==
    /\ pc = "clean"
    /\ df' = _clean_data(df)
    /\ pc' = "summary"
    /\ UNCHANGED <<env, raw_data, analysis, result, error>>

Raise(e) ==
    /\ pc' = "raised"
    /\ error' = e
    /\ UNCHANGED <<env, raw_data, df, analysis, result>>

\* line 39
GenerateSummary ==
    /\ pc = "summary"
    /\ IF _generate_summary_raises(df) THEN Raise("ValueError")
       ELSE /\ analysis' = analysis @@ ("summary" :> _generate_summary(df))
            /\ pc' = "prices"
            /\ UNCHANGED <<env, raw_data, df, result, error>>

\* line 40
AnalyzePrices ==
    /\ pc = "prices"
    /\ analysis' = analysis @@ ("price_analysis" :> _analyze_prices(df))
    /\ pc' = "routes"
    /\ UNCHANGED <<env, raw_data, df, result, error>>

\* line 41
AnalyzeRoutes ==
    /\ pc = "routes"
    /\ IF _analyze_routes_raises(df) THEN Raise("ValueError")
       ELSE /\ \E stats \in route_stats(df) :
                  analysis' = analysis @@
                                 ("route_analysis" :> _analyze_routes(stats))
            /\ pc' = "time"
            /\ UNCHANGED <<env, raw_data, df, result, error>>

\* line 42
AnalyzeTimePatterns ==
    /\ pc = "time"
    /\ analysis' = analysis @@ ("time_analysis" :> _analyze_time_patterns(df))
    /\ pc' = "demand"
    /\ UNCHANGED <<env, raw_data, df, result, error>>

\* line 43: the hour column is set on the frame before the grouping that
\* may raise
AnalyzeDemand ==
    /\ pc = "demand"
    /\ df' = with_hour(df)
    /\ IF _analyze_demand_raises(df)
       THEN /\ pc' = "raised"
            /\ error' = "ValueError"
            /\ UNCHANGED <<env, raw_data, analysis, result>>
       ELSE /\ analysis' = analysis @@ ("demand_analysis" :> _analyze_demand(df))
            /\ pc' = "airlines"
            /\ UNCHANGED <<env, raw_data, result, error>>

\* line 44
AnalyzeAirlines ==
    /\ pc = "airlines"
    /\ IF _analyze_airlines_raises(df)
       THEN Raise(IF "direct" \notin df.cols THEN "KeyError" ELSE "IndexError")
       ELSE /\ \E stats \in airline_stats(df) :
                  analysis' = analysis @@
                                 ("airline_analysis" :> _analyze_airlines(df, stats))
            /\ pc' = "assemble"
            /\ UNCHANGED <<env, raw_data, df, result, error>>

\* lines 47-60.  _save_processed_data catches whatever the write raises and
\* returns nothing, so the result handed back is processed_data as built.
Assemble ==
    /\ pc = "assemble"
    /\ \E ts \in Clock : result' = processed_data(raw_data, df, analysis, ts)
    /\ pc' = "done"
    /\ UNCHANGED <<env, raw_data, df, analysis, error>>

Next ==
    \/ ProcessData
    \/ CleanData
    \/ GenerateSummary
    \/ AnalyzePrices
    \/ AnalyzeRoutes
    \/ AnalyzeTimePatterns
    \/ AnalyzeDemand
    \/ AnalyzeAirlines
    \/ Assemble

(***************************************************************************)
(* The raw inputs of the model: every list of up to MaxFlights records     *)
(* drawn from three families.                                              *)
(*   CleaningRecords  the four required fields, each valid, malformed or   *)
(*                    missing, varied around the record of the test        *)
(*                    fixture;                                             *)
(*   OptionalRecords  valid records that all carry the same subset of the  *)
(*                    optional fields airline, direct, demand_score, time; *)
(*   PassThrough      an absent, empty or one-record list with each of     *)
(*                    search_params and market_data absent, empty or set.  *)
(***************************************************************************)
Absent == [t |-> "absent"]

\* A dict of the fields that are present.
Dict(f) == [k \in {x \in DOMAIN f : f[x] # Absent} |-> f[k]]

Flight(price, origin, destination, date) ==
    Dict([price |-> price, origin |-> origin,
          destination |-> destination, date |-> date])

SYD == Str(<<"S","Y","D">>)
syd == Str(<<"s","y","d">>)
MEL == Str(<<"M","E","L">>)
mel == Str(<<"m","e","l">>)
BNE == Str(<<"B","N","E">>)
Monday1Jan == Str(<<"2","0","2","4","-","0","1","-","0","1">>)
Tuesday2Jan == Str(<<"2","0","2","4","-","0","1","-","0","2">>)
Saturday6Jan == Str(<<"2","0","2","4","-","0","1","-","0","6">>)
February30 == Str(<<"2","0","2","4","-","0","2","-","3","0">>)
NotANumber == Str(<<"n","o","t","-","a","-","n","u","m","b","e","r">>)

CleaningRecords ==
    {Flight(p, SYD, MEL, Monday1Jan) :
        p \in {Num(150), Num(180), Num(0), Str(<<"1","5","0">>),
               Str(<<"-","5">>), NotANumber, Absent}}
    \cup {Flight(Num(150), o, d, Monday1Jan) :
            o \in {SYD, syd, Absent}, d \in {MEL, mel, Absent}}
    \cup {Flight(Num(150), SYD, MEL, dt) :
            dt \in {Monday1Jan, Saturday6Jan, February30, NotANumber, Absent}}
    \cup {Flight(Num(180), syd, mel, Saturday6Jan),
          Flight(Num(180), SYD, BNE, Tuesday2Jan)}

OptionalFields == {"airline", "direct", "demand_score", "time"}

Profiles ==
    {[airline |-> Str(<<"Q","a","n","t","a","s">>), direct |-> Bool(TRUE),
      demand_score |-> Float(4, 5), time |-> Str(<<"0","8",":","3","0">>)],
     [airline |-> Str(<<"V","i","r","g","i","n">>), direct |-> Bool(FALSE),
      demand_score |-> Float(2, 5), time |-> NotANumber],
     [airline |-> Str(<<"Q","a","n","t","a","s">>), direct |-> Bool(FALSE),
      demand_score |-> Float(2, 5), time |-> Str(<<"1","7",":","0","5">>)]}

ValidRecords ==
    {Flight(Num(150), SYD, MEL, Monday1Jan),
     Flight(Num(180), SYD, BNE, Saturday6Jan)}

\* The valid records extended with the optional fields of the subset F.
OptionalRecords(F) ==
    {r @@ [k \in F |-> p[k]] : r \in ValidRecords, p \in Profiles}

Lists(S) == UNION {[1..n -> S] : n \in 0..MaxFlights}

SomeParams == [origin |-> "SYD", destination |-> "MEL"]
SomeMarket == [trend |-> "up"]

PassThrough ==
    {f @@ s @@ m :
        f \in {EmptyDict, [flights |-> <<>>],
               [flights |-> <<Flight(Num(150), SYD, MEL, Monday1Jan)>>]},
        s \in {EmptyDict, [search_params |-> EmptyDict],
               [search_params |-> SomeParams]},
        m \in {EmptyDict, [market_data |-> EmptyDict],
               [market_data |-> SomeMarket]}}

RawInputs ==
    {[flights |-> f, search_params |-> SomeParams, market_data |-> SomeMarket] :
        f \in Lists(CleaningRecords)
              \cup UNION {Lists(OptionalRecords(F)) : F \in SUBSET OptionalFields}}
    \cup PassThrough

Init ==
    /\ raw_data \in RawInputs
    /\ pc = "start"
    /\ df = EmptyFrame
    /\ analysis = EmptyDict
    /\ result = EmptyDict
    /\ error = "none"
    /\ EnvIdle

Spec == Init /\ [][Next]_vars

(***************************************************************************)
(* Inputs with more routes than the ten that popular_routes lists.  The    *)
(* routes are the ordered pairs of five airports; a dataset has the first  *)
(* n of them, the i-th with i flights (of prices 101, 102, ...), but for   *)
(* two chosen routes a and b, which have one flight more each and so as    *)
(* many as the next route.                                                 *)
(***************************************************************************)
MaxRoutes == 11

PER == Str(<<"P","E","R">>)
ADL == Str(<<"A","D","L">>)
Airports == <<SYD, MEL, BNE, PER, ADL>>

CityPairs ==
    [i \in 1..(Len(Airports) * (Len(Airports) - 1)) |->
        LET o == ((i - 1) \div (Len(Airports) - 1)) + 1
            k == ((i - 1) % (Len(Airports) - 1)) + 1
        IN  <<Airports[o], Airports[IF k < o THEN k ELSE k + 1]>>]

RouteCount(i, a, b) ==
    i + (IF i = a THEN 1 ELSE 0) + (IF i = b THEN 1 ELSE 0)

RECURSIVE RouteFlights(_, _, _)
RouteFlights(n, a, b) ==
    IF n = 0 THEN <<>>
    ELSE RouteFlights(n - 1, a, b) \o
             [k \in 1..RouteCount(n, a, b) |->
                 Flight(Num(100 + k), CityPairs[n][1], CityPairs[n][2],
                        Monday1Jan)]

RouteInputs ==
    {[flights |-> RouteFlights(n, a, b),
      search_params |-> SomeParams, market_data |-> SomeMarket] :
        n \in {MaxRoutes - 2, MaxRoutes},
        a \in 0..MaxRoutes, b \in 0..MaxRoutes}

RouteInit ==
    /\ raw_data \in RouteInputs
    /\ pc = "start"
    /\ df = EmptyFrame
    /\ analysis = EmptyDict
    /\ result = EmptyDict
    /\ error = "none"
    /\ EnvIdle

RouteSpec == RouteInit /\ [][Next]_vars

(***************************************************************************)
(* Inputs for the airline ranking: every list of up to MaxAirlineFlights   *)
(* valid records that carry an airline and a direct flag.                  *)
(***************************************************************************)
MaxAirlineFlights == 3

AirlineInputs ==
    {[flights |-> f, search_params |-> SomeParams, market_data |-> SomeMarket] :
        f \in UNION {[1..n -> OptionalRecords({"airline", "direct"})] :
                        n \in 0..MaxAirlineFlights}}

AirlineInit ==
    /\ raw_data \in AirlineInputs
    /\ pc = "start"
    /\ df = EmptyFrame
    /\ analysis = EmptyDict
    /\ result = EmptyDict
    /\ error = "none"
    /\ EnvIdle

AirlineSpec == AirlineInit /\ [][Next]_vars

(***************************************************************************)
(* Inputs for the peak times: every list of up to MaxTimedFlights valid    *)
(* records of one route and date, each with a time of a morning hour, a    *)
(* time of an evening hour, a time that does not parse, or no time field.  *)
(***************************************************************************)
MaxTimedFlights == 3

TimedRecords ==
    {Flight(p, SYD, MEL, Monday1Jan) @@ t :
        p \in {Num(150), Num(180)},
        t \in {EmptyDict,
               [time |-> Str(<<"0","8",":","3","0">>)],
               [time |-> Str(<<"1","7",":","0","5">>)],
               [time |-> NotANumber]}}

TimedInputs ==
    {[flights |-> f, search_params |-> SomeParams, market_data |-> SomeMarket] :
        f \in UNION {[1..n -> TimedRecords] : n \in 0..MaxTimedFlights}}

TimedInit ==
    /\ raw_data \in TimedInputs
    /\ pc = "start"
    /\ df = EmptyFrame
    /\ analysis = EmptyDict
    /\ result = EmptyDict
    /\ error = "none"
    /\ EnvIdle

TimedSpec == TimedInit /\ [][Next]_vars

(***************************************************************************)
(* DataVisualizer.create_summary_metrics (src/src/visualizer.py), called   *)
(* with a processed-data mapping, which the variable result holds.         *)
(***************************************************************************)
\* Variant: total_flights is counted from the records of flights_data.
create_summary_metrics_recount(data) ==
    LET summary == get(get(data, "analysis", EmptyDict), "summary", EmptyDict)
    IN  [total_flights |-> Len(get(data, "flights_data", <<>>)),
         unique_routes |-> get(summary, "unique_routes", 0),
         avg_price |-> get(get(summary, "price_range", EmptyDict), "avg", 0),
         price_range |->
            [min |-> get(get(summary, "price_range", EmptyDict), "min", 0),
             max |-> get(get(summary, "price_range", EmptyDict), "max", 0)],
         date_range |-> get(summary, "date_range", EmptyDict),
         airlines |-> get(summary, "airlines", 0)]

create_summary_metrics(data) ==
    LET summary == get(get(data, "analysis", EmptyDict), "summary", EmptyDict)
    IN  [total_flights |-> get(summary, "total_flights", 0),
         unique_routes |-> get(summary, "unique_routes", 0),
         avg_price |-> get(get(summary, "price_range", EmptyDict), "avg", 0),
         price_range |->
            [min |-> get(get(summary, "price_range", EmptyDict), "min", 0),
             max |-> get(get(summary, "price_range", EmptyDict), "max", 0)],
         date_range |-> get(summary, "date_range", EmptyDict),
         airlines |-> get(summary, "airlines", 0)]

CreateSummaryMetrics ==
    /\ pc = "done"
    /\ metrics = <<>>
    /\ metrics' = create_summary_metrics(result)
    /\ UNCHANGED <<outside_viz, charts, vpc>>

MetricsNext == CreateSummaryMetrics

(***************************************************************************)
(* The processed-data mappings handed to create_summary_metrics: with or   *)
(* without analysis, summary and flights_data, and a summary with any      *)
(* subset of its keys and a price_range with some or all of its keys.  The *)
(* values are those of the test fixture (two flights at 150 and 180).      *)
(***************************************************************************)
SummaryValues ==
    [total_flights |-> 2, unique_routes |-> 1,
     date_range |-> [start |-> "2024-01-01", end |-> "2024-01-02"],
     airlines |-> 3]

PriceRangeValues == [avg |-> 165, min |-> 150, max |-> 180, median |-> 166]

PriceRanges ==
    {EmptyDict} \cup
    {"price_range" :> [k \in K |-> PriceRangeValues[k]] :
        K \in {{}, {"avg"}, {"min", "max"}, {"avg", "min", "max"},
               DOMAIN PriceRangeValues}}

Summaries ==
    {[k \in K |-> SummaryValues[k]] @@ pr :
        K \in SUBSET DOMAIN SummaryValues, pr \in PriceRanges}

MetricsData ==
    {a @@ f :
        a \in {EmptyDict, "analysis" :> EmptyDict}
              \cup {"analysis" :> ("summary" :> s) : s \in Summaries},
        f \in {EmptyDict, "flights_data" :> <<>>,
               "flights_data" :> <<[price |-> 150], [price |-> 180],
                                   [price |-> 180]>>}}

MetricsInit ==
    /\ result \in MetricsData
    /\ pc = "done"
    /\ raw_data = EmptyDict
    /\ df = EmptyFrame
    /\ analysis = EmptyDict
    /\ error = "none"
    /\ EnvIdle

MetricsSpec == MetricsInit /\ [][MetricsNext]_vars

(***************************************************************************)
(* DataVisualizer.create_charts (src/src/visualizer.py), called with the   *)
(* processed-data mapping in result.  The six builders run in turn inside  *)
(* one try block; a builder that raises ends the block in the handler.     *)
(* A chart is kept as its kind (a figure, or the empty chart with its      *)
(* message), its title and the number of points plotted.                   *)
(***************************************************************************)
Figure(title, n) == [kind |-> "figure", title |-> title, points |-> n]

_create_empty_chart(message) == [kind |-> "empty", message |-> message]

\* The columns of pd.DataFrame(flights_data)
ChartColumns(fd) == UNION {DOMAIN fd[i] : i \in DOMAIN fd}

\* pd.to_datetime(df['date']) without errors='coerce' raises on a text
\* that is no date; groupby(...)['price'] raises without a price column,
\* and mean() on prices that are text.
_create_price_trend_chart_raises(data) ==
    LET fd == get(data, "flights_data", <<>>)
    IN  /\ Len(fd) > 0
        /\ "date" \in ChartColumns(fd)
        /\ \/ \E i \in DOMAIN fd :
                 /\ "date" \in DOMAIN fd[i]
                 /\ fd[i]["date"].t = "str"
                 /\ IsNull(to_datetime(fd[i]["date"]))
           \/ "price" \notin ChartColumns(fd)
           \/ \E i \in DOMAIN fd :
                 "price" \in DOMAIN fd[i] /\ fd[i]["price"].t = "str"

_create_price_trend_chart(data) ==
    LET fd == get(data, "flights_data", <<>>)
        days == {to_datetime(fd[i]["date"]) :
                    i \in {j \in DOMAIN fd : "date" \in DOMAIN fd[j]}} \ {NaN}
    IN  IF Len(fd) = 0
        THEN _create_empty_chart("No data available for price trends")
        ELSE IF "date" \in ChartColumns(fd)
        THEN Figure("Price Trends Over Time", Cardinality(days))
        ELSE _create_empty_chart("Date information not available")

\* route['route'], route['flight_count'], route['avg_price'] of the first
\* ten entries: KeyError when an entry lacks one
RankingKeysMissing(entries, key) ==
    \E i \in DOMAIN entries :
        ~({key, "flight_count", "avg_price"} \subseteq DOMAIN entries[i])

popular_routes_of(data) ==
    get(get(get(data, "analysis", EmptyDict), "route_analysis", EmptyDict),
        "popular_routes", <<>>)

_create_route_popularity_chart_raises(data) ==
    RankingKeysMissing(head(popular_routes_of(data), 10), "route")

_create_route_popularity_chart(data) ==
    IF Len(popular_routes_of(data)) = 0
    THEN _create_empty_chart("No route data available")
    ELSE Figure("Route Popularity and Pricing",
                Len(head(popular_routes_of(data), 10)))

by_day_of(data) ==
    get(get(get(data, "analysis", EmptyDict), "price_analysis", EmptyDict),
        "by_day_of_week", EmptyDict)

_create_weekly_pattern_chart(data) ==
    IF DOMAIN by_day_of(data) = {}
    THEN _create_empty_chart("No weekly pattern data available")
    ELSE Figure("Weekly Price Patterns",
                Cardinality({i \in DOMAIN DayNames :
                                DayNames[i] \in DOMAIN by_day_of(data)}))

_create_price_distribution_chart(data) ==
    LET fd == get(data, "flights_data", <<>>)
        prices == SelectSeq(fd, LAMBDA f : "price" \in DOMAIN f)
    IN  IF Len(fd) = 0
        THEN _create_empty_chart("No data available for price distribution")
        ELSE IF Len(prices) = 0
        THEN _create_empty_chart("No price data available")
        ELSE Figure("Price Distribution", Len(prices))

airline_rankings_of(data) ==
    get(get(get(data, "analysis", EmptyDict), "airline_analysis", EmptyDict),
        "airline_rankings", <<>>)

_create_airline_comparison_chart_raises(data) ==
    RankingKeysMissing(airline_rankings_of(data), "airline")

_create_airline_comparison_chart(data) ==
    IF Len(airline_rankings_of(data)) = 0
    THEN _create_empty_chart("No airline data available")
    ELSE Figure("Airline Comparison: Flight Volume vs Pricing",
                Len(airline_rankings_of(data)))

daily_counts_of(data) ==
    get(get(get(data, "analysis", EmptyDict), "time_analysis", EmptyDict),
        "daily_flight_counts", EmptyDict)

_create_daily_volume_chart(data) ==
    IF DOMAIN daily_counts_of(data) = {}
    THEN _create_empty_chart("No daily volume data available")
    ELSE Figure("Daily Flight Volume", Cardinality(DOMAIN daily_counts_of(data)))

ChartNames ==
    <<"price_trends", "route_popularity", "weekly_patterns",
      "price_distribution", "airline_comparison", "daily_volume">>

\* Variant: the handler hands back only the error.
except_handler_reset(built, e) == <<>>

\* lines 54-56: except Exception as e: charts['error'] = str(e)
except_handler(built, e) == built @@ ("error" :> e)

\* One statement of the try block: the chart is stored under its name, or
\* the builder raises e and the handler runs, after which create_charts
\* returns.
ChartStep(name, raises, e, chart, next) ==
    /\ vpc = name
    /\ IF raises
       THEN /\ charts' = except_handler(charts, e)
            /\ vpc' = "returned"
       ELSE /\ charts' = charts @@ (name :> chart)
            /\ vpc' = next
    /\ UNCHANGED <<outside_viz, metrics>>

\* lines 26-31
CreateCharts ==
    /\ pc = "done"
    /\ vpc = "idle"
    /\ charts' = <<>>
    /\ vpc' = "price_trends"
    /\ UNCHANGED <<outside_viz, metrics>>

PriceTrendChart ==
    ChartStep("price_trends", _create_price_trend_chart_raises(result),
              "price_trends failed", _create_price_trend_chart(result),
              "route_popularity")

RoutePopularityChart ==
    ChartStep("route_popularity", _create_route_popularity_chart_raises(result),
              "route_popularity failed", _create_route_popularity_chart(result),
              "weekly_patterns")

WeeklyPatternChart ==
    ChartStep("weekly_patterns", FALSE, "",
              _create_weekly_pattern_chart(result), "price_distribution")

PriceDistributionChart ==
    ChartStep("price_distribution", FALSE, "",
              _create_price_distribution_chart(result), "airline_comparison")

AirlineComparisonChart ==
    ChartStep("airline_comparison",
              _create_airline_comparison_chart_raises(result),
              "airline_comparison failed",
              _create_airline_comparison_chart(result), "daily_volume")

\* the last statement of the block, then return charts
DailyVolumeChart ==
    ChartStep("daily_volume", FALSE, "",
              _create_daily_volume_chart(result), "returned")

ChartsNext ==
    \/ CreateCharts
    \/ PriceTrendChart
    \/ RoutePopularityChart
    \/ WeeklyPatternChart
    \/ PriceDistributionChart
    \/ AirlineComparisonChart
    \/ DailyVolumeChart

(***************************************************************************)
(* The processed-data mappings handed to create_charts: the test fixture   *)
(* and its variations, each part absent, empty, complete or malformed      *)
(* (a record without price, a date or a price that is no date or number,   *)
(* a ranking entry without one of its keys).                               *)
(***************************************************************************)
ChartFlights ==
    {EmptyDict, "flights_data" :> <<>>}
    \cup {"flights_data" :> f :
            f \in {<<[price |-> Num(150), date |-> Monday1Jan],
                     [price |-> Num(180), date |-> Tuesday2Jan]>>,
                   <<[date |-> Monday1Jan]>>,
                   <<[price |-> Num(150)]>>,
                   <<[price |-> Num(150), date |-> February30]>>,
                   <<[price |-> Str(<<"1","5","0">>), date |-> Monday1Jan]>>}}

ChartRoutes ==
    {EmptyDict, "route_analysis" :> EmptyDict,
     "route_analysis" :> [popular_routes |-> <<>>],
     "route_analysis" :>
        [popular_routes |->
            <<[route |-> "SYD-MEL", flight_count |-> 2, avg_price |-> 165],
              [route |-> "SYD-BNE", flight_count |-> 1, avg_price |-> 200]>>],
     "route_analysis" :>
        [popular_routes |->
            <<[route |-> "SYD-MEL", flight_count |-> 2, avg_price |-> 165],
              [route |-> "SYD-BNE", flight_count |-> 1]>>]}

ChartDays ==
    {EmptyDict,
     "price_analysis" :> [by_day_of_week |-> [Monday |-> 150, Tuesday |-> 180]]}

ChartAirlines ==
    {EmptyDict,
     "airline_analysis" :> [message |-> "No airline data available"],
     "airline_analysis" :>
        [airline_rankings |->
            <<[airline |-> "Qantas", flight_count |-> 1, avg_price |-> 150]>>],
     "airline_analysis" :>
        [airline_rankings |-> <<[airline |-> "Qantas", avg_price |-> 150]>>]}

ChartVolumes ==
    {EmptyDict,
     "time_analysis" :> [daily_flight_counts |-> [d20240101 |-> 1, d20240102 |-> 1]]}

ChartsData ==
    {f : f \in ChartFlights}
    \cup {f @@ ("analysis" :> (r @@ d @@ a @@ v)) :
            f \in ChartFlights, r \in ChartRoutes, d \in ChartDays,
            a \in ChartAirlines, v \in ChartVolumes}

ChartsInit ==
    /\ result \in ChartsData
    /\ pc = "done"
    /\ raw_data = EmptyDict
    /\ df = EmptyFrame
    /\ analysis = EmptyDict
    /\ error = "none"
    /\ EnvIdle

ChartsSpec == ChartsInit /\ [][ChartsNext]_vars

(***************************************************************************)
(* APIIntegrator.get_insights (src/src/api_integrator.py).  The body of    *)
(* _get_openai_insights breaks off inside the dict literal opened at line  *)
(* 100: line 103 starts "def _get_hf_insights" while the literal is still  *)
(* open, and the rest of the literal follows that function at lines        *)
(* 137-151.  The module therefore does not compile: importing it (app.py   *)
(* line 16, test_app.py line 15) raises SyntaxError, whatever the provider *)
(* settings and the processed data are, and get_insights is never entered. *)
(***************************************************************************)
\* The settings read at lines 20 and 37/47, and what a provider call would
\* do.
ProviderSettings ==
    [openai_api_key : BOOLEAN, hf_token : BOOLEAN,
     openai_call : {"ok", "raises"}, hf_call : {"ok", "raises"}]

\* import of the module, which precedes any APIIntegrator().get_insights
ImportAPIIntegrator ==
    /\ pc = "done"
    /\ ipc = "idle"
    /\ ipc' = "SyntaxError"
    /\ UNCHANGED <<outside_ins, providers, insights>>

InsightsNext == ImportAPIIntegrator

InsightsInit ==
    /\ result \in MetricsData
    /\ pc = "done"
    /\ raw_data = EmptyDict
    /\ df = EmptyFrame
    /\ analysis = EmptyDict
    /\ error = "none"
    /\ VizIdle
    /\ GenIdle
    /\ ConcIdle
    /\ providers \in ProviderSettings
    /\ insights = <<>>
    /\ ipc = "idle"

InsightsSpec == InsightsInit /\ [][InsightsNext]_vars

(***************************************************************************)
(* DataCollector._generate_sample_data (src/src/data_collector.py, lines   *)
(* 107-173).  A datetime is a calendar day and a time of day, of which     *)
(* only midnight (0, what strptime gives) and later (1) are told apart.    *)
(* Of the random draws, num_flights is drawn from the least and the        *)
(* largest value of randint(3, 8); a flight is generated with the plain    *)
(* multiplier 1.0, at 12:00, so that its price is the base price of the    *)
(* route with the weekend premium.                                         *)
(***************************************************************************)
datetime(day, tod) == [day |-> day, tod |-> tod]

\* No datetime: the value of an operation that raised.
NoDateTime == datetime(NaN, 0)

\* datetime.strptime(text, '%Y-%m-%d'); ValueError for a text that is no
\* day of the calendar
strptime(text) == datetime(to_datetime(Str(text)), 0)

\* a <= b on datetimes
DateTimeLeq(a, b) ==
    \/ ToOrdinal(a.day) < ToOrdinal(b.day)
    \/ ToOrdinal(a.day) = ToOrdinal(b.day) /\ a.tod <= b.tod

\* x + timedelta(days=1); OverflowError past 9999-12-31 (datetime.max)
next_day(x) ==
    LET dt == x.day
    IN  IF dt.d < DaysInMonth(dt.y, dt.m)
        THEN datetime(Date(dt.y, dt.m, dt.d + 1), x.tod)
        ELSE IF dt.m < 12
        THEN datetime(Date(dt.y, dt.m + 1, 1), x.tod)
        ELSE IF dt.y < 9999
        THEN datetime(Date(dt.y + 1, 1, 1), x.tod)
        ELSE NoDateTime

RECURSIVE add_days(_, _)
add_days(x, n) ==
    IF n = 0 \/ IsNull(x.day) THEN x ELSE add_days(next_day(x), n - 1)

\* lines 114-125
route_prices ==
    (<<SYD.s, MEL.s>> :> 150) @@ (<<MEL.s, SYD.s>> :> 150) @@
    (<<SYD.s, BNE.s>> :> 200) @@ (<<BNE.s, SYD.s>> :> 200) @@
    (<<MEL.s, BNE.s>> :> 250) @@ (<<BNE.s, MEL.s>> :> 250) @@
    (<<SYD.s, PER.s>> :> 400) @@ (<<PER.s, SYD.s>> :> 400) @@
    (<<MEL.s, ADL.s>> :> 180) @@ (<<ADL.s, MEL.s>> :> 180)

\* lines 128-129
base_price(origin, destination) ==
    LET route_key == <<upper(origin), upper(destination)>>
    IN  IF route_key \in DOMAIN route_prices THEN route_prices[route_key]
        ELSE 300

\* lines 132-137: the parsed window, <<start_date, end_date>>.  An empty
\* text is falsy and is not parsed; any exception in the try block (a text
\* that does not parse, or start_date + 7 days past datetime.max) gives
\* the window of the bare except.
date_window(date_from, date_to, now) ==
    LET start == IF Len(date_from) > 0 THEN strptime(date_from) ELSE now
        end == IF IsNull(start.day) THEN NoDateTime
               ELSE IF Len(date_to) > 0 THEN strptime(date_to)
               ELSE add_days(start, 7)
    IN  IF IsNull(start.day) \/ IsNull(end.day)
        THEN <<now, add_days(now, 7)>>
        ELSE <<start, end>>

\* round(base_price * price_multiplier), the multiplier being 1.0, times
\* 1.2 on a Saturday or Sunday (lines 144-149, 157)
sample_price(base, day) ==
    IF weekday(day) >= 5 THEN ((base * 12) + 5) \div 10 ELSE base

\* lines 156-167
sample_flight(a, day) ==
    [price |-> Num(sample_price(base_price(a.origin, a.destination), day)),
     origin |-> Str(upper(a.origin)),
     destination |-> Str(upper(a.destination)),
     date |-> Str(strftime(day)),
     time |-> Str(<<"1","2",":","0","0">>),
     airline |-> Str(<<"Q","a","n","t","a","s">>),
     direct |-> Bool(TRUE),
     duration |-> Num(90),
     source |-> Str(<<"s","a","m","p","l","e","_","d","a","t","a">>),
     demand_score |-> Num(1)]

\* random.randint(3, 8), line 142: the least and the largest draw
FlightCounts == {3, 8}

\* lines 111-139, up to the loop
GenerateSampleData ==
    /\ gpc = "start"
    /\ LET w == date_window(args.date_from, args.date_to, args.now)
       IN  /\ current_date' = w[1]
           /\ end_date' = w[2]
    /\ sample_flights' = <<>>
    /\ gpc' = "loop"
    /\ UNCHANGED <<outside_gen, args>>

\* lines 140-171: one pass of the while loop, the day's flights and then
\* current_date += timedelta(days=1), which is outside any try block
SampleDay ==
    /\ gpc = "loop"
    /\ DateTimeLeq(current_date, end_date)
    /\ \E num_flights \in FlightCounts :
          sample_flights' = sample_flights \o
              [i \in 1..num_flights |-> sample_flight(args, current_date.day)]
    /\ IF IsNull(next_day(current_date).day)
       THEN /\ gpc' = "OverflowError"
            /\ UNCHANGED current_date
       ELSE /\ current_date' = next_day(current_date)
            /\ UNCHANGED gpc
    /\ UNCHANGED <<outside_gen, args, end_date>>

\* line 173
ReturnSampleData ==
    /\ gpc = "loop"
    /\ ~DateTimeLeq(current_date, end_date)
    /\ gpc' = "returned"
    /\ UNCHANGED <<outside_gen, args, current_date, end_date, sample_flights>>

GenNext == GenerateSampleData \/ SampleDay \/ ReturnSampleData

\* Date texts: the empty text, texts that are no date, days of January
\* 2024 and the last two days of the calendar.  A window that ends in the
\* year 9999 starts there (one from 2024 has some three million days).
Wed3Jan == <<"2","0","2","4","-","0","1","-","0","3">>
Dec30Of9999 == <<"9","9","9","9","-","1","2","-","3","0">>
Dec31Of9999 == <<"9","9","9","9","-","1","2","-","3","1">>

NearTexts ==
    {<<>>, NotANumber.s, February30.s, Monday1Jan.s, Tuesday2Jan.s, Wed3Jan}
FarTexts == {Dec30Of9999, Dec31Of9999}

DatePairs ==
    (NearTexts \X NearTexts) \cup (FarTexts \X (FarTexts \cup NearTexts))

SampleArgs ==
    {[origin |-> o, destination |-> d, date_from |-> w[1], date_to |-> w[2],
      now |-> datetime(Date(2024, 1, 2), 1)] :
        o \in {syd.s}, d \in {mel.s, ADL.s}, w \in DatePairs}

GenInit ==
    /\ args \in SampleArgs
    /\ current_date = <<>>
    /\ end_date = <<>>
    /\ sample_flights = <<>>
    /\ gpc = "start"
    /\ raw_data = EmptyDict
    /\ pc = "start"
    /\ df = EmptyFrame
    /\ analysis = EmptyDict
    /\ result = EmptyDict
    /\ error = "none"
    /\ VizIdle
    /\ InsIdle
    /\ ConcIdle

GenSpec == GenInit /\ [][GenNext]_vars

(***************************************************************************)
(* Invocations of process_data running at once.  app.py creates one        *)
(* DataProcessor (line 42) and the results route calls its process_data    *)
(* in the thread of each request.  __init__ (lines 19-21) sets only        *)
(* processed_data_dir, which no step assigns again; raw_data, df,          *)
(* df_clean, analysis and processed_data are locals of the invocation.     *)
(* What the invocations share is the wall clock, the directory of saved    *)
(* files and the log.                                                      *)
(*                                                                         *)
(* A step of an invocation is a step of the sequential model above, taken  *)
(* on the invocation's own locals; _save_processed_data (lines 307-319)    *)
(* is taken in two steps, open(filepath, 'w') and the dump that ends with  *)
(* the file closed.                                                        *)
(***************************************************************************)
Call(raw) ==
    [raw_data |-> raw, pc |-> "start", df |-> EmptyFrame,
     analysis |-> EmptyDict, result |-> EmptyDict, error |-> "none",
     path |-> -1]

\* Variant: the frame is kept on the instance, where the latest invocation
\* to load one replaces it (here: the frame of the first invocation).
df_of_instance(cs, i) == cs[1].df

\* The frame a step of invocation i works on: its local df / df_clean
\* (lines 32, 35)
df_of(cs, i) == cs[i].df

Raising(c, e) == [c EXCEPT !.pc = "raised", !.error = e]

View(c, key, value, next) ==
    [c EXCEPT !.analysis = c.analysis @@ (key :> value), !.pc = next]

\* The successors of invocation c at a step of lines 28-55, d being the
\* frame it works on and t the reading of the clock.
call_steps(c, d, t) ==
    CASE c.pc = "start" ->
            IF no_flights(c.raw_data)
            THEN {[c EXCEPT !.result = _get_empty_processed_data(t),
                            !.pc = "done"]}
            ELSE {[c EXCEPT !.df = DataFrame(c.raw_data["flights"]),
                            !.pc = "clean"]}
      [] c.pc = "clean" ->
            {[c EXCEPT !.df = _clean_data(d), !.pc = "summary"]}
      [] c.pc = "summary" ->
            IF _generate_summary_raises(d) THEN {Raising(c, "ValueError")}
            ELSE {View(c, "summary", _generate_summary(d), "prices")}
      [] c.pc = "prices" ->
            {View(c, "price_analysis", _analyze_prices(d), "routes")}
      [] c.pc = "routes" ->
            IF _analyze_routes_raises(d) THEN {Raising(c, "ValueError")}
            ELSE {View(c, "route_analysis", _analyze_routes(stats), "time") :
                    stats \in route_stats(d)}
      [] c.pc = "time" ->
            {View(c, "time_analysis", _analyze_time_patterns(d), "demand")}
      [] c.pc = "demand" ->
            IF _analyze_demand_raises(d)
            THEN {[Raising(c, "ValueError") EXCEPT !.df = with_hour(d)]}
            ELSE {[View(c, "demand_analysis", _analyze_demand(d), "airlines")
                      EXCEPT !.df = with_hour(d)]}
      [] c.pc = "airlines" ->
            IF _analyze_airlines_raises(d)
            THEN {Raising(c, IF "direct" \notin d.cols THEN "KeyError"
                             ELSE "IndexError")}
            ELSE {View(c, "airline_analysis", _analyze_airlines(d, stats),
                       "assemble") : stats \in airline_stats(d)}
      [] c.pc = "assemble" ->
            {[c EXCEPT !.result = processed_data(c.raw_data, d, c.analysis, t),
                       !.pc = "save"]}
      [] OTHER -> {}

\* json.dump(data, f, indent=2, default=str), line 316, as the pieces it
\* writes in the order of the dict literals (lines 48-55, 38-45): the
\* search parameters, each flight record, each view, and the three last
\* entries.
Piece(key, value) == [key |-> key, value |-> value]

ViewNames ==
    <<"summary", "price_analysis", "route_analysis", "time_analysis",
      "demand_analysis", "airline_analysis">>

json_pieces(data) ==
    <<Piece("search_params", data.search_params)>>
    \o [i \in DOMAIN data.flights_data |->
            Piece("flights_data", data.flights_data[i])]
    \o [i \in DOMAIN ViewNames |-> Piece(ViewNames[i], data.analysis[ViewNames[i]])]
    \o <<Piece("market_data", data.market_data),
         Piece("processing_timestamp", Num(data.processing_timestamp)),
         Piece("total_flights", Num(data.total_flights))>>

\* The keys of daily_flight_counts are datetime.date values (line 175, the
\* groupby over .dt.date).  A date is no JSON key and default= is not
\* applied to keys: the encoder raises TypeError on reaching the entry,
\* after it has written what precedes it.
has_date_keys(data) ==
    DOMAIN data.analysis["time_analysis"]["daily_flight_counts"] # {}

pieces_before_time(data) == SubSeq(json_pieces(data), 1, Len(data.flights_data) + 4)

json_dump(data) ==
    IF has_date_keys(data)
    THEN [written |-> pieces_before_time(data), raised |-> "TypeError"]
    ELSE [written |-> json_pieces(data), raised |-> "none"]

\* What a file holds after a writer that opened it writes w from its own
\* position 0: w, and behind it what another writer left there.
overwrite(content, w) == w \o SubSeq(content, Len(w) + 1, Len(content))

CallIds == {1, 2}

\* lines 28-55
CallStep(i) ==
    /\ call_steps(calls[i], df_of(calls, i), clock) # {}
    /\ \E c \in call_steps(calls[i], df_of(calls, i), clock) :
          calls' = [calls EXCEPT ![i] = c]
    /\ UNCHANGED <<outside_conc, clock, files, log>>

\* lines 310-315: the name from the clock's second, and open(filepath, 'w'),
\* which creates the file or empties it
SaveOpen(i) ==
    /\ calls[i].pc = "save"
    /\ calls' = [calls EXCEPT ![i].path = clock, ![i].pc = "write"]
    /\ files' = (clock :> <<>>) @@ files
    /\ UNCHANGED <<outside_conc, clock, log>>

\* lines 316-319 and the return of line 60: the dump, the close of the
\* file that writes out what was dumped, and the handler that logs the
\* failure
SaveWrite(i) ==
    /\ calls[i].pc = "write"
    /\ LET p == calls[i].path
           dump == json_dump(calls[i].result)
       IN  /\ files' = [files EXCEPT ![p] = overwrite(files[p], dump.written)]
           /\ log' = IF dump.raised = "none" THEN log ELSE log \cup {i}
    /\ calls' = [calls EXCEPT ![i].pc = "done"]
    /\ UNCHANGED <<outside_conc, clock>>

\* a second passes
Tick ==
    /\ clock < MaxClock
    /\ clock' = clock + 1
    /\ UNCHANGED <<outside_conc, calls, files, log>>

ConcNext ==
    \/ \E i \in CallIds : CallStep(i) \/ SaveOpen(i) \/ SaveWrite(i)
    \/ Tick

\* The requests: no flights, one record, two records, and a record
\* without origin, on which _analyze_routes raises.
ConcInputs ==
    {[flights |-> f, search_params |-> SomeParams, market_data |-> SomeMarket] :
        f \in {<<>>,
               <<Flight(Num(150), SYD, MEL, Monday1Jan)>>,
               <<Flight(Num(180), SYD, BNE, Saturday6Jan),
                 Flight(Num(150), syd, mel, Tuesday2Jan)>>,
               <<Flight(Num(150), Absent, MEL, Monday1Jan)>>}}

ConcInit ==
    /\ calls \in [CallIds -> {Call(r) : r \in ConcInputs}]
    /\ clock = 0
    /\ files = <<>>
    /\ log = {}
    /\ raw_data = EmptyDict
    /\ pc = "start"
    /\ df = EmptyFrame
    /\ analysis = EmptyDict
    /\ result = EmptyDict
    /\ error = "none"
    /\ VizIdle
    /\ InsIdle
    /\ GenIdle

ConcSpec == ConcInit /\ [][ConcNext]_vars

(***************************************************************************)
(* Properties.                                                             *)
(***************************************************************************)
flights == get(raw_data, "flights", <<>>)

Returned == pc = "done"
Raised == pc = "raised"
\* df holds the normalized table
Normalized == pc \notin {"start", "clean"}

\* The raw record a normalized row comes from (its index label).
RawOf(r) == flights[r.idx + 1]

PriceParses(raw) ==
    /\ "price" \in DOMAIN raw
    /\ to_numeric(raw["price"]).t = "num"
    /\ to_numeric(raw["price"]).n > 0

DateParses(raw) ==
    /\ "date" \in DOMAIN raw
    /\ to_datetime(raw["date"]).t = "date"

ValidRaw(raw) == PriceParses(raw) /\ DateParses(raw)

Degenerate(res) ==
    /\ res.analysis.summary.total_flights = 0
    /\ res.total_flights = 0
    /\ res.flights_data = <<>>
    /\ \A k \in {"price_analysis", "route_analysis", "time_analysis",
                 "demand_analysis", "airline_analysis"} :
          k \in DOMAIN res.analysis /\ DOMAIN res.analysis[k] = {}

\* C1: in every returned result, analysis.summary.total_flights is the
\* number of distinct raw records whose price parses to a number > 0 and
\* whose date parses.
C1_TotalFlights ==
    Returned =>
        result.analysis.summary.total_flights =
            Cardinality({flights[i] : i \in {j \in DOMAIN flights :
                                                ValidRaw(flights[j])}})

\* A result over two raw records of which one is excluded.
C1_Witness ==
    /\ Returned
    /\ Len(flights) = 2
    /\ \E i \in DOMAIN flights : ~ValidRaw(flights[i])
    /\ result.analysis.summary.total_flights = 1

\* C2: with an empty or missing 'flights' list process_data returns, and
\* the result has total_flights 0 at both levels, no flights_data and the
\* five views other than summary present and empty.
C2_EmptyInput ==
    (Len(flights) = 0 /\ pc # "start") =>
        (Returned /\ Degenerate(result))

C2_Witness ==
    /\ Returned
    /\ "flights" \in DOMAIN raw_data
    /\ Len(raw_data["flights"]) = 0
    /\ Degenerate(result)

\* C3: with a non-empty list of which normalization excludes every record,
\* process_data does not raise and returns the result of the empty input.
C3_AllExcluded ==
    (/\ Len(flights) > 0
     /\ \A i \in DOMAIN flights :
           /\ {"price", "date"} \subseteq DOMAIN flights[i]
           /\ ~ValidRaw(flights[i])
     /\ pc \in {"done", "raised"}) =>
        (Returned /\ Degenerate(result))

\* Valid records: price, date, origin and destination are there and parse,
\* and so does a time where there is one.
ValidDataset ==
    /\ Len(flights) > 0
    /\ \A i \in DOMAIN flights :
          /\ ValidRaw(flights[i])
          /\ {"origin", "destination"} \subseteq DOMAIN flights[i]
          /\ "time" \in DOMAIN flights[i] => ~IsNull(hour_of(flights[i]["time"]))

\* C4: on a non-empty dataset of valid records, whichever of airline,
\* direct, demand_score and time are absent from all of them, process_data
\* never raises, the result has analysis, flights_data and total_flights,
\* and without direct no airline ranking carries direct_ratio.
C4_MissingOptional ==
    ValidDataset =>
        /\ ~Raised
        /\ Returned =>
              /\ {"analysis", "flights_data", "total_flights"} \subseteq DOMAIN result
              /\ ("airline" \in df.cols /\ "direct" \notin df.cols) =>
                    \A i \in DOMAIN result.analysis.airline_analysis.airline_rankings :
                        "direct_ratio" \notin
                            DOMAIN result.analysis.airline_analysis.airline_rankings[i]

\* C5: the returned result's search_params and market_data are the ones of
\* the input, also when the 'flights' list is empty.
C5_PassThrough ==
    (Returned /\ "flights" \in DOMAIN raw_data) =>
        /\ "search_params" \in DOMAIN raw_data =>
              result.search_params = raw_data["search_params"]
        /\ "market_data" \in DOMAIN raw_data =>
              result.market_data = raw_data["market_data"]

\* C6 as stated: every normalized record has a route that is its origin,
\* then "-", then its destination.
C6_RouteAlways ==
    Normalized =>
        \A i \in DOMAIN df.rows :
            LET c == df.rows[i].c IN
            /\ c["origin"].t = "str" /\ c["destination"].t = "str"
            /\ c["route"] = Str(c["origin"].s \o <<"-">> \o c["destination"].s)

\* C6 as amended: a normalized record whose origin and destination are
\* both present has as route the uppercased raw origin, then "-", then the
\* uppercased raw destination; a record that lacks either has a null route.
C6_Route ==
    Normalized =>
        \A i \in DOMAIN df.rows :
            LET c == df.rows[i].c
                raw == RawOf(df.rows[i])
            IN  IF {"origin", "destination"} \subseteq DOMAIN raw
                THEN /\ c["origin"] = Str(upper(raw["origin"].s))
                     /\ c["destination"] = Str(upper(raw["destination"].s))
                     /\ c["route"] = Str(upper(raw["origin"].s) \o <<"-">>
                                         \o upper(raw["destination"].s))
                ELSE c["route"] = NaN

\* A table with a route built from lower-case codes and a null route.
C6_Witness ==
    /\ pc = "summary"
    /\ \E i \in DOMAIN df.rows :
          /\ get(RawOf(df.rows[i]), "origin", NaN) = syd
          /\ df.rows[i].c["route"] = Str(<<"S","Y","D","-","M","E","L">>)
    /\ \E i \in DOMAIN df.rows : df.rows[i].c["route"] = NaN

\* C7: every normalized record has a price > 0 and a date, which are the
\* parsed price and date of the raw record it comes from; so a raw record
\* with an unparsable, missing, zero or negative price or an unparsable
\* date has no normalized record, zeroed or default-dated, and none in
\* flights_data.
C7_PriceAndDate ==
    /\ Normalized =>
          \A i \in DOMAIN df.rows :
              LET c == df.rows[i].c
                  raw == RawOf(df.rows[i])
              IN  /\ c["price"].t = "num" /\ c["price"].n > 0
                  /\ c["date"].t = "date"
                  /\ ValidRaw(raw)
                  /\ c["price"] = to_numeric(raw["price"])
                  /\ c["date"] = to_datetime(raw["date"])
    /\ Returned =>
          /\ Len(result.flights_data) = len(df)
          /\ \A i \in DOMAIN result.flights_data :
                /\ result.flights_data[i]["price"].t = "num"
                /\ result.flights_data[i]["price"].n > 0
                /\ result.flights_data[i]["date"].t = "date"

\* A result that kept one of two raw records, the other having a price or
\* a date that does not parse.
C7_Witness ==
    /\ Returned
    /\ Len(flights) = 2
    /\ \E i \in DOMAIN flights :
          \/ "price" \in DOMAIN flights[i] /\ flights[i]["price"] = NotANumber
          \/ "date" \in DOMAIN flights[i] /\ flights[i]["date"] = February30
    /\ Len(result.flights_data) = 1

\* C8: a valid raw record that is in the input k >= 1 times has exactly
\* one normalized record.
C8_Dedup ==
    Normalized =>
        \A i \in DOMAIN flights :
            ValidRaw(flights[i]) =>
                Cardinality({j \in DOMAIN df.rows :
                                RawOf(df.rows[j]) = flights[i]}) = 1

\* A valid record given twice, normalized to one row.
C8_Witness ==
    /\ pc = "summary"
    /\ Len(flights) = 2
    /\ flights[1] = flights[2]
    /\ ValidRaw(flights[1])
    /\ len(df) = 1

Finite(v) == v.t = "float" /\ v.den # 0

\* C10: premium_percentage is absent from weekend_premium when weekday_avg
\* is 0 or there is no weekday record, and where present it is a finite
\* number.
C10_Premium ==
    (Returned /\ Len(flights) > 0) =>
        LET wp == result.analysis.price_analysis.weekend_premium
            weekdays == {i \in DOMAIN df.rows : ~df.rows[i].c["is_weekend"].b}
        IN  /\ (weekdays = {} \/ wp.weekday_avg = Float(0, 1)) =>
                  "premium_percentage" \notin DOMAIN wp
            /\ "premium_percentage" \in DOMAIN wp =>
                  Finite(wp.premium_percentage)

Zero(v) ==
    \/ v.t = "num" /\ v.n = 0
    \/ v.t = "float" /\ v.num = 0
    \/ v.t = "sqrt" /\ v.of.num = 0

\* C11: in weekend_premium, weekend_avg is 0 when the dataset has no
\* weekend record and weekday_avg is 0 when it has no weekday record.
C11_EmptySubsetAverage ==
    (Returned /\ Len(flights) > 0) =>
        LET wp == result.analysis.price_analysis.weekend_premium
            weekend == {i \in DOMAIN df.rows : df.rows[i].c["is_weekend"].b}
            weekdays == {i \in DOMAIN df.rows : ~df.rows[i].c["is_weekend"].b}
        IN  /\ weekend = {} => Zero(wp.weekend_avg)
            /\ weekdays = {} => Zero(wp.weekday_avg)

\* C12: with exactly one normalized record, price_analysis.statistics.std
\* is 0.
C12_SingleRecordStd ==
    (Returned /\ Len(flights) > 0 /\ len(df) = 1) =>
        Zero(result.analysis.price_analysis.statistics.std)

\* C13: with a demand_score field, price_demand_correlation is 0 whenever
\* fewer than two records carry both a price and a demand_score or the
\* prices of those records are all equal.
C13_Correlation ==
    (Returned /\ Len(flights) > 0 /\ "demand_score" \in df.cols) =>
        LET both == {i \in DOMAIN df.rows :
                        ~IsNull(df.rows[i].c["demand_score"])}
            prices == {df.rows[i].c["price"] : i \in both}
        IN  (Cardinality(both) < 2 \/ Cardinality(prices) < 2) =>
                Zero(result.analysis.demand_analysis.price_demand_correlation)

\* C14: when no raw record of a non-empty dataset carries an airline
\* field, airline_analysis is the no-data marker, a mapping with a message
\* and no airline_rankings, and summary.airlines is 0.
C14_NoAirline ==
    (/\ Returned
     /\ Len(flights) > 0
     /\ \A i \in DOMAIN flights : "airline" \notin DOMAIN flights[i]) =>
        /\ "message" \in DOMAIN result.analysis.airline_analysis
        /\ "airline_rankings" \notin DOMAIN result.analysis.airline_analysis
        /\ result.analysis.summary.airlines = 0

\* A result over two records without airline that carry the other
\* optional fields.
C14_Witness ==
    /\ Returned
    /\ Len(flights) = 2
    /\ \A i \in DOMAIN flights :
          /\ "airline" \notin DOMAIN flights[i]
          /\ {"direct", "demand_score"} \subseteq DOMAIN flights[i]
    /\ result.analysis.airline_analysis.message = "No airline data available"

\* The route key of a raw record that has an origin and a destination.
HasRoute(raw) == {"origin", "destination"} \subseteq DOMAIN raw
RawRoute(raw) ==
    upper(raw["origin"].s) \o <<"-">> \o upper(raw["destination"].s)

\* C15: routes are grouped by the uppercased codes: for a normalized record
\* with origin and destination, popular_routes (when it lists every route)
\* has exactly one entry for the record's uppercased route, and its
\* flight_count is the number of normalized records with that route,
\* whatever the case of their raw codes.
C15_RouteGrouping ==
    (/\ Returned
     /\ Len(flights) > 0
     /\ result.analysis.route_analysis.total_routes <= 10) =>
        LET pr == result.analysis.route_analysis.popular_routes
            rows == {i \in DOMAIN df.rows : HasRoute(RawOf(df.rows[i]))}
        IN  \A i \in rows :
                LET k == RawRoute(RawOf(df.rows[i])) IN
                /\ Cardinality({j \in DOMAIN pr : pr[j].route = k}) = 1
                /\ \A j \in DOMAIN pr :
                      pr[j].route = k =>
                          pr[j].flight_count =
                              Cardinality({m \in rows :
                                  RawRoute(RawOf(df.rows[m])) = k})

\* The records syd/mel at 180 and SYD/MEL at 150: total_flights 2 and one
\* popular route SYD-MEL of flight_count 2 and average price 165.
C15_Witness ==
    /\ Returned
    /\ Len(flights) = 2
    /\ get(flights[1], "origin", NaN) = syd
    /\ get(flights[1], "destination", NaN) = mel
    /\ get(flights[2], "origin", NaN) = SYD
    /\ get(flights[2], "destination", NaN) = MEL
    /\ result.total_flights = 2
    /\ Len(result.analysis.route_analysis.popular_routes) = 1
    /\ result.analysis.route_analysis.popular_routes[1].route =
          <<"S","Y","D","-","M","E","L">>
    /\ result.analysis.route_analysis.popular_routes[1].flight_count = 2
    /\ result.analysis.route_analysis.popular_routes[1].avg_price = Float(165, 1)

\* The routes of the normalized table and their numbers of records.
Routes == {df.rows[i].c["route"].s :
              i \in {j \in DOMAIN df.rows : ~IsNull(df.rows[j].c["route"])}}
RouteRecords(k) ==
    Cardinality({i \in DOMAIN df.rows : df.rows[i].c["route"] = Str(k)})

\* popular_routes lists distinct routes with their numbers of records, ten
\* of them or all if there are fewer, by descending flight_count, and no
\* route left out has more records than a listed one.
TopRoutes(pr) ==
    /\ Len(pr) <= 10
    /\ Len(pr) = 10 \/ Len(pr) = Cardinality(Routes)
    /\ \A j \in DOMAIN pr :
          /\ pr[j].route \in Routes
          /\ pr[j].flight_count = RouteRecords(pr[j].route)
          /\ \A k \in DOMAIN pr : pr[k].route = pr[j].route => k = j
          /\ \A k \in DOMAIN pr : j < k => pr[j].flight_count >= pr[k].flight_count
          /\ \A r \in Routes \ {pr[k].route : k \in DOMAIN pr} :
                RouteRecords(r) <= pr[j].flight_count

Airlines == {df.rows[i].c["airline"].s :
                i \in {j \in DOMAIN df.rows : ~IsNull(df.rows[j].c["airline"])}}
AirlineRecords(k) ==
    Cardinality({i \in DOMAIN df.rows : df.rows[i].c["airline"] = Str(k)})

\* The ranking lists every airline once with its number of records, by
\* descending flight_count, and most_flights is the airline of its first
\* entry.
Ranking(aa) ==
    LET ar == aa.airline_rankings
    IN  /\ {ar[j].airline : j \in DOMAIN ar} = Airlines
        /\ Len(ar) = Cardinality(Airlines)
        /\ \A j \in DOMAIN ar : ar[j].flight_count = AirlineRecords(ar[j].airline)
        /\ \A j, k \in DOMAIN ar :
              j < k => ar[j].flight_count >= ar[k].flight_count
        /\ aa.most_flights = ar[1].airline

DayRecords(x) ==
    Cardinality({i \in DOMAIN df.rows : df.rows[i].c["date"] = x})
NotLater(x, y) ==
    \/ x.y < y.y
    \/ x.y = y.y /\ x.m < y.m
    \/ x.y = y.y /\ x.m = y.m /\ x.d <= y.d

\* C18: time_analysis.busiest_day is the date of a record, written as in
\* the input, whose number of records is the largest over all dates and
\* which is the earliest of the dates with that number; quietest_day
\* likewise with the smallest number.
C18_BusiestQuietestDay ==
    (Returned /\ Len(flights) > 0) =>
        LET ta == result.analysis.time_analysis
            Day(i) == df.rows[i].c["date"]
        IN  /\ \E i \in DOMAIN df.rows :
                  /\ ta.busiest_day = RawOf(df.rows[i])["date"].s
                  /\ \A j \in DOMAIN df.rows :
                        \/ DayRecords(Day(j)) < DayRecords(Day(i))
                        \/ /\ DayRecords(Day(j)) = DayRecords(Day(i))
                           /\ NotLater(Day(i), Day(j))
            /\ \E i \in DOMAIN df.rows :
                  /\ ta.quietest_day = RawOf(df.rows[i])["date"].s
                  /\ \A j \in DOMAIN df.rows :
                        \/ DayRecords(Day(j)) > DayRecords(Day(i))
                        \/ /\ DayRecords(Day(j)) = DayRecords(Day(i))
                           /\ NotLater(Day(i), Day(j))

\* Two results.  In the first the later date has two records and the
\* earlier one: the later is the busiest day, the earlier the quietest.
\* In the second the two dates tie, the later being first in the input:
\* the earlier date is both the busiest and the quietest day.
C18_WitnessCounts ==
    /\ Returned
    /\ Len(flights) = 3
    /\ \A i \in DOMAIN flights :
          flights[i]["date"] = IF i = 1 THEN Monday1Jan ELSE Saturday6Jan
    /\ len(df) = 3
    /\ result.analysis.time_analysis.busiest_day = Saturday6Jan.s
    /\ result.analysis.time_analysis.quietest_day = Monday1Jan.s

C18_Witness ==
    /\ Returned
    /\ Len(flights) = 2
    /\ flights[1]["date"] = Saturday6Jan
    /\ flights[2]["date"] = Monday1Jan
    /\ result.analysis.time_analysis.busiest_day = Monday1Jan.s
    /\ result.analysis.time_analysis.quietest_day = Monday1Jan.s

\* C19: with a time field, a normalized record whose time is missing or
\* does not parse as HH:MM has no hour and is counted in no bucket of
\* hourly_distribution, whose buckets are the hours of the other records
\* with their numbers of records; busiest_hour and quietest_hour are the
\* earliest hours of the largest and the smallest number.
C19_PeakTimes ==
    (Returned /\ Len(flights) > 0 /\ "time" \in df.cols) =>
        LET pt == result.analysis.demand_analysis.peak_times
            hd == pt.hourly_distribution
            HourOf(i) == hour_of(get(RawOf(df.rows[i]), "time", NaN))
            timed == {i \in DOMAIN df.rows : ~IsNull(HourOf(i))}
            hours == {HourOf(i).n : i \in timed}
            HourRecords(h) == Cardinality({i \in timed : HourOf(i).n = h})
        IN  /\ \A i \in DOMAIN df.rows \ timed :
                  /\ df.rows[i].c["hour"] = NaN
                  /\ result.flights_data[i]["hour"] = NaN
            /\ DOMAIN hd = hours
            /\ \A h \in hours : hd[h] = HourRecords(h)
            /\ pt.busiest_hour \in hours
            /\ \A k \in hours :
                  \/ HourRecords(k) < HourRecords(pt.busiest_hour)
                  \/ /\ HourRecords(k) = HourRecords(pt.busiest_hour)
                     /\ pt.busiest_hour <= k
            /\ pt.quietest_hour \in hours
            /\ \A k \in hours :
                  \/ HourRecords(k) > HourRecords(pt.quietest_hour)
                  \/ /\ HourRecords(k) = HourRecords(pt.quietest_hour)
                     /\ pt.quietest_hour <= k

\* Three records: an evening time, a time that does not parse and a
\* morning time.  The hours 8 and 17 have one record each, no bucket has
\* the third, and the earlier hour 8 is busiest and quietest.
C19_Witness ==
    /\ Returned
    /\ Len(flights) = 3
    /\ len(df) = 3
    /\ get(flights[1], "time", NaN) = Str(<<"1","7",":","0","5">>)
    /\ get(flights[2], "time", NaN) = NotANumber
    /\ get(flights[3], "time", NaN) = Str(<<"0","8",":","3","0">>)
    /\ result.analysis.demand_analysis.peak_times.hourly_distribution =
          (8 :> 1) @@ (17 :> 1)
    /\ result.analysis.demand_analysis.peak_times.busiest_hour = 8
    /\ result.analysis.demand_analysis.peak_times.quietest_hour = 8

\* Three records of which one has no time field and two the evening hour.
C19_WitnessMissing ==
    /\ Returned
    /\ Len(flights) = 3
    /\ len(df) = 3
    /\ \E i \in DOMAIN flights : "time" \notin DOMAIN flights[i]
    /\ result.analysis.demand_analysis.peak_times.hourly_distribution = (17 :> 2)

\* A result with every top-level key and all six views.
FullResult(res) ==
    /\ {"search_params", "flights_data", "analysis", "market_data",
        "processing_timestamp", "total_flights"} \subseteq DOMAIN res
    /\ {"summary", "price_analysis", "route_analysis", "time_analysis",
        "demand_analysis", "airline_analysis"} \subseteq DOMAIN res.analysis

\* C20: process_data hands back no partial result: a call that has
\* returned has handed back a mapping with search_params, flights_data,
\* analysis with all six views, market_data, processing_timestamp and
\* total_flights, and a call that has raised, or has not returned yet,
\* has handed back nothing.
C20_NoPartialResult ==
    /\ Returned => FullResult(result)
    /\ ~Returned => result = EmptyDict

\* A full result over two normalized records.
C20_Witness ==
    /\ Returned
    /\ Len(result.flights_data) = 2
    /\ FullResult(result)

\* A call that raised after four views were computed.
C20_WitnessRaised ==
    /\ Raised
    /\ {"summary", "price_analysis", "route_analysis", "time_analysis"}
          \subseteq DOMAIN analysis
    /\ result = EmptyDict

\* The columns of the table that _clean_data produces: those of the raw
\* records, the required ones and the derived ones.
CleanColumns ==
    UNION {DOMAIN flights[i] : i \in DOMAIN flights}
    \cup {"price", "origin", "destination", "date"}
    \cup {"day_of_week", "month", "is_weekend", "route"}

\* C26: the views do not modify the normalized table: after the six views
\* have run, every record of flights_data has exactly the fields that
\* _clean_data produced, no view having added or removed a column.
C26_ViewsLeaveTable ==
    (Returned /\ Len(flights) > 0) =>
        \A i \in DOMAIN result.flights_data :
            DOMAIN result.flights_data[i] = CleanColumns

\* C27: in every returned result the top-level total_flights,
\* analysis.summary.total_flights and the number of entries of flights_data
\* are equal.
C27_CountsAgree ==
    Returned =>
        /\ result.total_flights = result.analysis.summary.total_flights
        /\ result.total_flights = Len(result.flights_data)

\* A result over two raw records of which the first is excluded: the three
\* counts are 1.
C27_Witness ==
    /\ Returned
    /\ Len(flights) = 2
    /\ ~ValidRaw(flights[1])
    /\ result.total_flights = 1
    /\ result.analysis.summary.total_flights = 1
    /\ Len(result.flights_data) = 1

RECURSIVE SumCounts(_)
SumCounts(s) ==
    IF Len(s) = 0 THEN 0 ELSE s[1].flight_count + SumCounts(Tail(s))

\* C28: every normalized record is counted in exactly one route group: when
\* popular_routes lists all total_routes groups, the sum of their
\* flight_count is summary.total_flights, also when some records have no
\* origin or no destination.
C28_RouteCountsSum ==
    (/\ Returned
     /\ Len(flights) > 0
     /\ result.analysis.route_analysis.total_routes <= 10) =>
        SumCounts(result.analysis.route_analysis.popular_routes) =
            result.analysis.summary.total_flights

\* C29: equal rows are dropped by their raw values: of two valid raw records
\* that differ in any raw field value, be it only in the letter case of a
\* code or in the representation of the price, both are retained.
C29_DedupBeforeCoercion ==
    Normalized =>
        \A i, j \in DOMAIN flights :
            (/\ i < j
             /\ ValidRaw(flights[i]) /\ ValidRaw(flights[j])
             /\ \A k \in 1..(j - 1) : flights[k] # flights[j]) =>
                \E m \in DOMAIN df.rows : df.rows[m].idx = j - 1

\* A normalized table of two rows that are identical on every field and
\* come from the prices 150 and "150".
C29_Witness ==
    /\ pc = "summary"
    /\ len(df) = 2
    /\ df.rows[1].c = df.rows[2].c
    /\ {get(flights[i], "price", NaN) : i \in DOMAIN flights} =
          {Num(150), Str(<<"1","5","0">>)}

\* A normalized table of two rows that are identical on every field and
\* come from codes in lower and in upper case.
C29_WitnessCase ==
    /\ pc = "summary"
    /\ len(df) = 2
    /\ df.rows[1].c = df.rows[2].c
    /\ {get(flights[i], "origin", NaN) : i \in DOMAIN flights} = {syd, SYD}

\* The summary of a processed-data mapping, empty when there is none.
SummaryOf(data) ==
    IF "analysis" \in DOMAIN data /\ "summary" \in DOMAIN data["analysis"]
    THEN data["analysis"]["summary"] ELSE EmptyDict

\* C22: the metrics are a projection of analysis.summary: total_flights,
\* unique_routes, avg_price (price_range.avg), price_range.min and .max,
\* date_range and airlines are the values of the summary, or 0 (an empty
\* mapping for date_range) where the summary has none; total_flights and
\* avg_price are always there, and flights_data has no part in it.
C22_SummaryMetrics ==
    metrics # <<>> =>
        LET s == SummaryOf(result)
            pr == IF "price_range" \in DOMAIN s THEN s["price_range"]
                  ELSE EmptyDict
        IN  /\ {"total_flights", "avg_price"} \subseteq DOMAIN metrics
            /\ \A k \in {"total_flights", "unique_routes", "airlines"} :
                  metrics[k] = IF k \in DOMAIN s THEN s[k] ELSE 0
            /\ metrics.avg_price = IF "avg" \in DOMAIN pr THEN pr["avg"] ELSE 0
            /\ \A k \in {"min", "max"} :
                  metrics.price_range[k] =
                      IF k \in DOMAIN pr THEN pr[k] ELSE 0
            /\ metrics.date_range =
                  IF "date_range" \in DOMAIN s THEN s["date_range"]
                  ELSE EmptyDict

\* Metrics of a mapping whose summary says 2 flights while flights_data has
\* 3 records and whose price_range has no avg.
C22_Witness ==
    /\ metrics # <<>>
    /\ "flights_data" \in DOMAIN result
    /\ Len(result["flights_data"]) = 3
    /\ "price_range" \in DOMAIN SummaryOf(result)
    /\ "avg" \notin DOMAIN SummaryOf(result)["price_range"]
    /\ metrics.total_flights = 2
    /\ metrics.avg_price = 0
    /\ metrics.price_range.max = 180

\* The names of the first n charts.
FirstCharts(n) == {ChartNames[i] : i \in 1..n}

\* C24: create_charts does not raise and returns a non-empty mapping:
\* either all six charts, or, when a builder raised, the charts built
\* before it and an 'error' entry.
C24_ChartsAlways ==
    /\ vpc \in {"idle", "returned"} \cup FirstCharts(Len(ChartNames))
    /\ vpc = "returned" =>
          /\ DOMAIN charts # {}
          /\ \/ DOMAIN charts = FirstCharts(Len(ChartNames))
             \/ \E n \in 0..(Len(ChartNames) - 1) :
                   DOMAIN charts = FirstCharts(n) \cup {"error"}

\* The airline chart raised on a ranking entry without flight_count after
\* four charts were built from flight records.
C24_Witness ==
    /\ vpc = "returned"
    /\ DOMAIN charts = FirstCharts(4) \cup {"error"}
    /\ charts["price_trends"].kind = "figure"


\* C23: whatever the provider settings and outcomes, a call of get_insights
\* ends by returning a mapping with 'source' and 'generated_at', never in
\* an exception.
C23_InsightsReturned ==
    /\ ipc \in {"idle", "returned"}
    /\ ipc = "returned" => {"source", "generated_at"} \subseteq DOMAIN insights


\* The days from a through b, as date texts.
RECURSIVE DayTexts(_, _)
DayTexts(a, b) ==
    IF IsNull(a.day) \/ ~DateTimeLeq(a, b) THEN {}
    ELSE {strftime(a.day)} \cup DayTexts(next_day(a), b)

\* The date range of a call: from date_from through date_to when both are
\* dates, and seven days from now when neither is.  (With one of the two a
\* date and the other not, the window of lines 132-137 is neither.)
SampleRange ==
    LET f == strptime(args.date_from)
        t == strptime(args.date_to)
    IN  IF IsNull(f.day) /\ IsNull(t.day)
        THEN DayTexts(args.now, add_days(args.now, 7))
        ELSE IF IsNull(f.day) \/ IsNull(t.day) THEN {}
        ELSE DayTexts(f, t)

FlightsOn(text) ==
    Cardinality({i \in DOMAIN sample_flights : sample_flights[i].date.s = text})

\* C25: _generate_sample_data does not raise and, for date_from <= date_to
\* (and for empty or unparsable dates), returns a non-empty list with 3 to
\* 8 flights for each day of the date range, every flight having price,
\* origin, destination and date.
C25_SampleData ==
    /\ gpc # "OverflowError"
    /\ (gpc = "returned" /\ SampleRange # {}) =>
          /\ Len(sample_flights) > 0
          /\ \A text \in SampleRange : FlightsOn(text) \in 3..8
          /\ \A i \in DOMAIN sample_flights :
                {"price", "origin", "destination", "date"}
                    \subseteq DOMAIN sample_flights[i]


\* The outcomes of an invocation running alone: the invocations at the
\* save step, returned or raised that call_steps reaches from c on c's own
\* frame.
RECURSIVE Alone(_)
Alone(c) ==
    IF call_steps(c, c.df, 0) = {} THEN {c}
    ELSE UNION {Alone(n) : n \in call_steps(c, c.df, 0)}

Untimed(r) == [k \in DOMAIN r \ {"processing_timestamp"} |-> r[k]]

\* C21: in every interleaving of two invocations, an invocation that
\* returns a result returns, but for processing_timestamp, a result of
\* running alone on its input, and one that raises raises as it would
\* alone.
C21_Independent ==
    \A i \in CallIds :
        /\ calls[i].pc = "done" =>
              \E a \in Alone(Call(calls[i].raw_data)) :
                  /\ a.pc \in {"save", "done"}
                  /\ Untimed(a.result) = Untimed(calls[i].result)
        /\ calls[i].pc = "raised" =>
              \E a \in Alone(Call(calls[i].raw_data)) :
                  a.pc = "raised" /\ a.error = calls[i].error

\* Both invocations returned, on different inputs, after their steps were
\* interleaved: both had the file of second 0 open before either wrote,
\* and the first wrote last.
C21_Witness ==
    /\ \A i \in CallIds : calls[i].pc = "done" /\ calls[i].path = 0
    /\ Len(calls[1].result.flights_data) = 1
    /\ Len(calls[2].result.flights_data) = 2
    /\ Len(files[0]) > Len(json_dump(calls[1].result).written)


\* The content of a file is the whole dump of a result.
Persisted(content, data) ==
    /\ Len(content) = Len(json_pieces(data))
    /\ \A k \in DOMAIN content :
          /\ content[k].key = json_pieces(data)[k].key
          /\ content[k].value = json_pieces(data)[k].value

\* C30: the file of a save is named by the second of the clock alone, so
\* two invocations that save within one second write the same file, which
\* then holds the persisted result of one of them; a failed write is
\* logged and leaves the returned result as it was built.
C30_SameSecondOverwrite ==
    /\ \A i, j \in CallIds :
          (/\ i # j
           /\ calls[i].pc = "done" /\ calls[j].pc = "done"
           /\ calls[i].path >= 0 /\ calls[i].path = calls[j].path) =>
              \/ Persisted(files[calls[i].path], calls[i].result)
              \/ Persisted(files[calls[i].path], calls[j].result)
    /\ \A i \in CallIds :
          (/\ calls[i].pc = "done" /\ calls[i].path >= 0
           /\ json_dump(calls[i].result).raised # "none") =>
              /\ i \in log
              /\ \E a \in Alone(Call(calls[i].raw_data)) :
                    Untimed(a.result) = Untimed(calls[i].result)

====
